---- MODULE Spec2Model ----
(***************************************************************************)
(* Footnotes Manager: the footnote extractor, the renumber dialog, footnote *)
(* insertion and the panel's delete/save actions, modelled over the text of *)
(* one open document.  A text is a sequence of one-character strings;       *)
(* offsets are zero-based as in the TypeScript source.                      *)
(***************************************************************************)
EXTENDS Integers, Sequences, FiniteSets, TLC

VARIABLES text, panel, dialog, last, budget, plugin, host

vars == <<text, panel, dialog, last, budget, plugin, host>>

(***************************************************************************)
(* Characters and the character classes of the regular expressions.        *)
(***************************************************************************)
NL == "\n"

Digits == {"0", "1", "2", "3", "4", "5", "6", "7", "8", "9"}

\* \w of the regular expressions, restricted to the characters texts contain
WordChars == Digits \cup {"a", "n", "_"}

\* [\w-]
IdChars == WordChars \cup {"-"}

\* \s, and what String.prototype.trim strips
SpaceChars == {" ", NL}

DigitVal(c) ==
  CASE c = "0" -> 0 [] c = "1" -> 1 [] c = "2" -> 2 [] c = "3" -> 3 [] c = "4" -> 4
    [] c = "5" -> 5 [] c = "6" -> 6 [] c = "7" -> 7 [] c = "8" -> 8 [] OTHER -> 9

DigitChar(d) ==
  CASE d = 0 -> "0" [] d = 1 -> "1" [] d = 2 -> "2" [] d = 3 -> "3" [] d = 4 -> "4"
    [] d = 5 -> "5" [] d = 6 -> "6" [] d = 7 -> "7" [] d = 8 -> "8" [] OTHER -> "9"

(***************************************************************************)
(* String primitives.                                                      *)
(***************************************************************************)
Min(a, b) == IF a < b THEN a ELSE b

Max(a, b) == IF a > b THEN a ELSE b

Clamp(t, k) == Max(0, Min(k, Len(t)))

\* String.prototype.substring(a, b): both ends clamped, swapped when a > b
Sub(t, a, b) ==
  LET x == Clamp(t, a)
      y == Clamp(t, b)
  IN SubSeq(t, Min(x, y) + 1, Max(x, y))

\* String.prototype.substring(a)
SubFrom(t, a) == Sub(t, a, Len(t))

\* the character at a zero-based offset, "" past the end
CharAt(t, k) == IF k >= 0 /\ k < Len(t) THEN t[k + 1] ELSE ""

\* Number.prototype.toString for a non-negative integer
RECURSIVE ToStr(_)
ToStr(n) == IF n < 10 THEN <<DigitChar(n)>> ELSE ToStr(n \div 10) \o <<DigitChar(n % 10)>>

\* the number of line breaks before offset k: (s.match(/\n/g) || []).length
RECURSIVE CountNL(_, _)
CountNL(t, k) ==
  IF k <= 0 THEN 0
  ELSE CountNL(t, k - 1) + (IF CharAt(t, k - 1) = NL THEN 1 ELSE 0)

\* first offset at or after k whose character is outside class
RECURSIVE RunEnd(_, _, _)
RunEnd(t, k, class) ==
  IF k < Len(t) /\ t[k + 1] \in class THEN RunEnd(t, k + 1, class) ELSE k

\* first offset at or after k holding a line break, or the end of the text
RECURSIVE LineEnd(_, _)
LineEnd(t, k) ==
  IF k < Len(t) /\ t[k + 1] # NL THEN LineEnd(t, k + 1) ELSE k

\* String.prototype.trim() === ''
IsBlank(s) == \A k \in 1..Len(s) : s[k] \in SpaceChars

\* String.prototype.lastIndexOf('\n'), -1 when there is none
RECURSIVE LastIndexOfNL(_, _)
LastIndexOfNL(s, k) ==
  IF k < 0 THEN -1
  ELSE IF CharAt(s, k) = NL THEN k ELSE LastIndexOfNL(s, k - 1)

\* s.replace(/  +/g, ' ')
RECURSIVE CollapseSpaces(_)
CollapseSpaces(s) ==
  IF s = <<>> THEN <<>>
  ELSE IF Head(s) = " " /\ Len(s) >= 2 /\ s[2] = " "
       THEN <<" ">> \o CollapseSpaces(SubFrom(s, RunEnd(s, 0, {" "})))
       ELSE <<Head(s)>> \o CollapseSpaces(Tail(s))

\* s.replace(/\n\n\n+/g, '\n\n')
RECURSIVE CollapseNewlines(_)
CollapseNewlines(s) ==
  IF s = <<>> THEN <<>>
  ELSE IF Head(s) = NL /\ RunEnd(s, 0, {NL}) >= 3
       THEN <<NL, NL>> \o CollapseNewlines(SubFrom(s, RunEnd(s, 0, {NL})))
       ELSE <<Head(s)>> \o CollapseNewlines(Tail(s))

\* s.split('\n')
RECURSIVE SplitLines(_)
SplitLines(s) ==
  LET e == LineEnd(s, 0)
  IN IF e = Len(s) THEN <<s>> ELSE <<Sub(s, 0, e)>> \o SplitLines(SubFrom(s, e + 1))

\* stable ascending sort of a sequence by the integer keys key[1..Len(s)]
\* (Array.prototype.sort with the comparator (a, b) => key(a) - key(b))
SortByKey(s, key) ==
  LET rank(i) == 1 + Cardinality({j \in 1..Len(s) :
                      key[j] < key[i] \/ (key[j] = key[i] /\ j < i)})
  IN [p \in 1..Len(s) |-> s[CHOOSE i \in 1..Len(s) : rank(i) = p]]

(***************************************************************************)
(* parseInt on a footnote id.  Ids match [\w-]+, so there is no leading     *)
(* white space; texts hold no 'x', so the hexadecimal prefix cannot occur.  *)
(***************************************************************************)
RECURSIVE DigitsValue(_, _)
DigitsValue(s, acc) ==
  IF s = <<>> \/ Head(s) \notin Digits THEN acc
  ELSE DigitsValue(Tail(s), 10 * acc + DigitVal(Head(s)))

ParseInt(id) ==
  LET neg  == id # <<>> /\ Head(id) = "-"
      body == IF neg THEN Tail(id) ELSE id
  IN IF body = <<>> \/ Head(body) \notin Digits
     THEN [nan |-> TRUE, val |-> 0]
     ELSE [nan |-> FALSE, val |-> IF neg THEN 0 - DigitsValue(body, 0) ELSE DigitsValue(body, 0)]

(***************************************************************************)
(* The two regular expressions of the extractor.                           *)
(***************************************************************************)
\* /\[\^([\w-]+)\]/ anchored at offset i: the offset after the match, or -1
RefMatchEnd(t, i) ==
  IF CharAt(t, i) = "[" /\ CharAt(t, i + 1) = "^"
  THEN LET e == RunEnd(t, i + 2, IdChars)
       IN IF e > i + 2 /\ CharAt(t, e) = "]" THEN e + 1 ELSE -1
  ELSE -1

\* the captured id of a match of the reference pattern at offset i ending at e
MatchId(t, i, e) == Sub(t, i + 2, e - 1)

\* /^\[\^([\w-]+)\]:\s*(.*)$/m anchored at offset i: the match, or <<>>
DefMatchAt(t, i) ==
  LET e == RefMatchEnd(t, i)
  IN IF (i = 0 \/ CharAt(t, i - 1) = NL) /\ e # -1 /\ CharAt(t, e) = ":"
     THEN LET w == RunEnd(t, e + 1, SpaceChars)
              c == LineEnd(t, w)
          IN <<[number   |-> MatchId(t, i, e),
               content  |-> Sub(t, w, c),
               line     |-> CountNL(t, i),
               startPos |-> i,
               endPos   |-> c]>>
     ELSE <<>>

\* the successive definitionRegex.exec matches from lastIndex i on
RECURSIVE DefinitionMatches(_, _)
DefinitionMatches(t, i) ==
  IF i > Len(t) THEN <<>>
  ELSE LET m == DefMatchAt(t, i)
       IN IF m = <<>> THEN DefinitionMatches(t, i + 1)
          ELSE m \o DefinitionMatches(t, Max(m[1].endPos, i + 1))

\* the successive referenceRegex.exec matches from lastIndex i on
RECURSIVE ReferenceMatches(_, _)
ReferenceMatches(t, i) ==
  IF i >= Len(t) THEN <<>>
  ELSE LET e == RefMatchEnd(t, i)
       IN IF e = -1 THEN ReferenceMatches(t, i + 1)
          ELSE <<[number   |-> MatchId(t, i, e),
                  line     |-> CountNL(t, i),
                  startPos |-> i,
                  endPos   |-> e]>> \o ReferenceMatches(t, e)

\* how far back the reference pass looks for the start of the line
SkipWindow == 10

\* the reference pass's test "this match is actually a definition"
IsDefinitionToken(t, startPos, endPos) ==
  LET beforeMatch      == Sub(t, Max(0, startPos - SkipWindow), startPos)
      afterMatch       == Sub(t, endPos, endPos + 2)
      lineStart        == LastIndexOfNL(beforeMatch, Len(beforeMatch) - 1)
      textBeforeOnLine == IF lineStart >= 0 THEN SubFrom(beforeMatch, lineStart + 1)
                          ELSE beforeMatch
  IN IsBlank(textBeforeOnLine) /\ afterMatch # <<>> /\ Head(afterMatch) = ":"

\* the matches the reference pass keeps
References(t) ==
  LET keep(m) == ~IsDefinitionToken(t, m.startPos, m.endPos)
  IN SelectSeq(ReferenceMatches(t, 0), keep)

\* a map that keeps the first value set for an id
RECURSIVE MapSetFirst(_, _)
MapSetFirst(acc, ms) ==
  IF ms = <<>> THEN acc
  ELSE MapSetFirst(IF \E k \in 1..Len(acc) : acc[k].number = Head(ms).number THEN acc
                   ELSE Append(acc, Head(ms)),
                   Tail(ms))

\* Map.set over the definition matches: a repeated id keeps its first
\* position in iteration order and takes the later value
RECURSIVE MapSetAll(_, _)
MapSetAll(acc, ms) ==
  IF ms = <<>> THEN acc
  ELSE LET m == Head(ms)
           hit == {k \in 1..Len(acc) : acc[k].number = m.number}
       IN MapSetAll(IF hit = {} THEN Append(acc, m)
                    ELSE [k \in 1..Len(acc) |-> IF k \in hit THEN m ELSE acc[k]],
                    Tail(ms))

FootnoteDefinitions(t) == MapSetAll(<<>>, DefinitionMatches(t, 0))

\* extractFootnotesWithUnreferenced
ExtractFootnotesWithUnreferenced(t) ==
  LET defs == FootnoteDefinitions(t)
      refs == References(t)
      data(d) ==
        LET mine(r) == r.number = d.number
            rs      == SelectSeq(refs, mine)
        IN [number         |-> d.number,
            content        |-> d.content,
            definition     |-> d,
            references     |-> rs,
            referenceCount |-> Len(rs),
            isUnreferenced |-> Len(rs) = 0]
      all == [k \in 1..Len(defs) |-> data(defs[k])]
      isRef(f) == ~f.isUnreferenced
      isUnref(f) == f.isUnreferenced
  IN [referencedFootnotes   |-> SelectSeq(all, isRef),
      unreferencedFootnotes |-> SelectSeq(all, isUnref)]

\* [...referencedFootnotes, ...unreferencedFootnotes]
ReferencedThenUnreferenced(r) == r.referencedFootnotes \o r.unreferencedFootnotes

\* extractFootnotes
ExtractFootnotes(t) == ReferencedThenUnreferenced(ExtractFootnotesWithUnreferenced(t))

\* the references whose id is not among the ids of the definition matches
WithoutDefinition(refs, defMatches) ==
  LET orphan(r) == \A k \in 1..Len(defMatches) : defMatches[k].number # r.number
  IN SelectSeq(refs, orphan)

\* findOrphanedReferences
FindOrphanedReferences(t) == WithoutDefinition(References(t), DefinitionMatches(t, 0))

(***************************************************************************)
(* Applying span edits.                                                    *)
(***************************************************************************)
\* content.substring(0, startPos) + newText + content.substring(endPos)
Splice(content, startPos, endPos, newText) ==
  Sub(content, 0, startPos) \o newText \o SubFrom(content, endPos)

\* forEach over the replacements, each applied to the result of the one before
RECURSIVE ApplyInOrder(_, _)
ApplyInOrder(content, reps) ==
  IF reps = <<>> THEN content
  ELSE ApplyInOrder(Splice(content, Head(reps).startPos, Head(reps).endPos, Head(reps).newText),
                    Tail(reps))

\* sort((a, b) => b.startPos - a.startPos)
SortDescending(reps) ==
  SortByKey(reps, [k \in 1..Len(reps) |-> 0 - reps[k].startPos])

\* Array.prototype.flat over a sequence of sequences
RECURSIVE Flatten(_)
Flatten(ss) == IF ss = <<>> THEN <<>> ELSE Head(ss) \o Flatten(Tail(ss))

(***************************************************************************)
(* renumberFootnotes: what the dialog is opened with.                      *)
(***************************************************************************)
\* the referenced ids that parse as integers, as numbers, ascending
SortedNumbers(referencedFootnotes) ==
  LET parsed == [k \in 1..Len(referencedFootnotes) |-> ParseInt(referencedFootnotes[k].number)]
      isNum(p) == ~p.nan
      nums == SelectSeq(parsed, isNum)
  IN SortByKey(nums, [k \in 1..Len(nums) |-> nums[k].val])

SeqToSet(s) == {s[k] : k \in 1..Len(s)}

\* the gaps loop bounded by the count of the numbers instead of the largest
GapsOfByCount(referencedFootnotes) ==
  LET sortedNumbers == SortedNumbers(referencedFootnotes)
      nums == {sortedNumbers[k].val : k \in 1..Len(sortedNumbers)}
      top  == Len(sortedNumbers)
      missing(i) == i \notin nums
      cand == [i \in 1..(top - 1) |-> i]
      gapNums == SelectSeq(cand, missing)
  IN [k \in 1..Len(gapNums) |-> ToStr(gapNums[k])]

\* the gaps loop: for (i = 1; i < max; i++) if (!sortedNumbers.includes(i))
GapsOf(referencedFootnotes) ==
  LET sortedNumbers == SortedNumbers(referencedFootnotes)
      nums == {sortedNumbers[k].val : k \in 1..Len(sortedNumbers)}
      top  == IF Len(sortedNumbers) > 0 THEN sortedNumbers[Len(sortedNumbers)].val ELSE 0
      missing(i) == i \notin nums
      cand == [i \in 1..(top - 1) |-> i]
      gapNums == SelectSeq(cand, missing)
  IN [k \in 1..Len(gapNums) |-> ToStr(gapNums[k])]

(***************************************************************************)
(* performEnhancedRenumbering.                                             *)
(***************************************************************************)
\* step 1: delete the orphaned references, highest offset first, then
\* collapse runs of spaces
RemoveOrphaned(content, orphanedRefs) ==
  LET dels == [k \in 1..Len(orphanedRefs) |->
                 [startPos |-> orphanedRefs[k].startPos,
                  endPos   |-> orphanedRefs[k].endPos,
                  newText  |-> <<>>]]
  IN CollapseSpaces(ApplyInOrder(content, SortDescending(dels)))

\* the referenced footnotes sorted by the offset of their first reference
SortedFootnotes(updatedFootnotes) ==
  SortByKey(updatedFootnotes,
            [k \in 1..Len(updatedFootnotes) |-> updatedFootnotes[k].references[1].startPos])

\* numberMapping: the new number of an old id (index + 1 in sortedFootnotes)
NewNumber(updatedFootnotes, number) ==
  LET sorted == SortedFootnotes(updatedFootnotes)
  IN ToStr(CHOOSE k \in 1..Len(sorted) : sorted[k].number = number)

\* the replacements of one footnote: its definition, then its references
FootnoteReplacements(f, newNumber) ==
  <<[startPos |-> f.definition.startPos,
     endPos   |-> f.definition.endPos,
     newText  |-> <<"[", "^">> \o newNumber \o <<"]", ":", " ">> \o f.definition.content]>>
  \o [k \in 1..Len(f.references) |->
        [startPos |-> f.references[k].startPos,
         endPos   |-> f.references[k].endPos,
         newText  |-> <<"[", "^">> \o newNumber \o <<"]">>]]

\* allReplacements, in the order they are collected
AllReplacements(updatedFootnotes) ==
  Flatten([k \in 1..Len(updatedFootnotes) |->
             FootnoteReplacements(updatedFootnotes[k],
                                  NewNumber(updatedFootnotes, updatedFootnotes[k].number))])

\* step 2: re-extract, map, replace from the highest offset down
FillGaps(content) ==
  ApplyInOrder(content,
    SortDescending(AllReplacements(ExtractFootnotesWithUnreferenced(content).referencedFootnotes)))

\* "if (removeOrphaned && orphanedRefs.length > 0)"
RemoveOrphanedStep(content, orphanedRefs, removeOrphaned) ==
  IF removeOrphaned /\ Len(orphanedRefs) > 0 THEN RemoveOrphaned(content, orphanedRefs)
  ELSE content

\* "if (fillGaps && footnotes.length > 0)"
FillGapsStep(content, footnotes, fillGaps) ==
  IF fillGaps /\ Len(footnotes) > 0 THEN FillGaps(content) ELSE content

\* the content performEnhancedRenumbering hands to editor.setValue
PerformEnhancedRenumbering(content, footnotes, orphanedRefs, removeOrphaned, fillGaps) ==
  FillGapsStep(RemoveOrphanedStep(content, orphanedRefs, removeOrphaned), footnotes, fillGaps)

(***************************************************************************)
(* The editor positions insertFootnote works with.                         *)
(***************************************************************************)
\* editor.lineCount()
LineCount(t) == Len(SplitLines(t))

\* the offset of an editor position {line, ch}; a position past the last
\* line is the end of the document, a column past the line is its end
PosToOffset(t, line, ch) ==
  LET lines == SplitLines(t)
      RECURSIVE start(_)
      start(k) == IF k = 0 THEN 0 ELSE start(k - 1) + Len(lines[k]) + 1
  IN IF line >= Len(lines) THEN Len(t)
     ELSE start(line) + Min(ch, Len(lines[line + 1]))

\* editor.replaceRange(s, {line, ch})
ReplaceRange(t, s, line, ch) ==
  LET o == PosToOffset(t, line, ch) IN Splice(t, o, o, s)

\* lines[i].match(/^\[\^[\w-]+\]:/)
LineIsDefinition(l) ==
  LET e == RefMatchEnd(l, 0) IN e # -1 /\ CharAt(l, e) = ":"

(***************************************************************************)
(* insertFootnote.                                                         *)
(***************************************************************************)
\* the scan "if (num === nextNumber) nextNumber++ else break"
RECURSIVE ScanNextNumber(_, _)
ScanNextNumber(existingNumbers, nextNumber) ==
  IF existingNumbers = <<>> THEN nextNumber
  ELSE IF Head(existingNumbers).val = nextNumber
       THEN ScanNextNumber(Tail(existingNumbers), nextNumber + 1)
       ELSE nextNumber

NextNumber(content) ==
  ScanNextNumber(SortedNumbers(ExtractFootnotesWithUnreferenced(content).referencedFootnotes), 1)

\* the last line index (zero-based) holding a definition, -1 when none
FootnotesStartLine(lines) ==
  LET hits == {i \in 0..(Len(lines) - 1) : LineIsDefinition(lines[i + 1])}
  IN IF hits = {} THEN -1 ELSE CHOOSE i \in hits : \A j \in hits : j <= i

\* the loop over the lines after footnotesStartLine
RECURSIVE InsertPosLoop(_, _, _)
InsertPosLoop(lines, i, insertPos) ==
  IF i >= Len(lines) THEN insertPos
  ELSE IF LineIsDefinition(lines[i + 1]) THEN InsertPosLoop(lines, i + 1, i + 1)
  ELSE IF IsBlank(lines[i + 1]) THEN InsertPosLoop(lines, i + 1, insertPos)
  ELSE insertPos

\* editor.setValue(content + '\n\n') or editor.setValue(content + '\n')
AppendBlank(content, lines) ==
  IF ~IsBlank(lines[Len(lines)]) THEN content \o <<NL, NL>> ELSE content \o <<NL>>

\* the second half of insertFootnote: where the definition line goes.
\* afterRef is the editor after replaceRange(footnoteRef, cursor); lines and
\* footnotesStartLine come from the content read before it
PlaceDefinition(content, afterRef, lines, footnotesStartLine, nextNumber) ==
  IF footnotesStartLine = -1
  THEN ReplaceRange(AppendBlank(content, lines),
                    <<NL, "[", "^">> \o nextNumber \o <<"]", ":", " ">>,
                    LineCount(AppendBlank(content, lines)), 0)
  ELSE ReplaceRange(afterRef,
                    <<NL, "[", "^">> \o nextNumber \o <<"]", ":", " ">>,
                    InsertPosLoop(lines, footnotesStartLine + 1, footnotesStartLine + 1), 0)

InsertNumbered(content, cursor, nextNumber, lines) ==
  PlaceDefinition(content,
                  Splice(content, cursor, cursor, <<"[", "^">> \o nextNumber \o <<"]">>),
                  lines, FootnotesStartLine(lines), nextNumber)

\* the editor text after insertFootnote with the cursor at offset cursor
InsertFootnote(content, cursor) ==
  InsertNumbered(content, cursor, ToStr(NextNumber(content)), SplitLines(content))

\* the values insertFootnote gives the editor, one per replaceRange or
\* setValue call, in order
InsertWrites(content, cursor) ==
  LET afterRef == Splice(content, cursor, cursor,
                         <<"[", "^">> \o ToStr(NextNumber(content)) \o <<"]">>)
  IN IF FootnotesStartLine(SplitLines(content)) = -1
     THEN <<afterRef, AppendBlank(content, SplitLines(content)), InsertFootnote(content, cursor)>>
     ELSE <<afterRef, InsertFootnote(content, cursor)>>

(***************************************************************************)
(* The panel's delete and save handlers.                                   *)
(***************************************************************************)
\* referencedFootnotes.find(f => f.number === number), as a sequence of 0 or 1
FindByNumber(footnotes, number) ==
  LET same(f) == f.number = number
      hits == SelectSeq(footnotes, same)
  IN IF hits = <<>> THEN <<>> ELSE <<Head(hits)>>

PerformUnreferencedFootnoteDeletion(content, footnote) ==
  CollapseNewlines(Splice(content, footnote.definition.startPos,
                          footnote.definition.endPos, <<>>))

PerformFullFootnoteDeletion(content, footnote) ==
  LET deletions == <<[startPos |-> footnote.definition.startPos,
                      endPos   |-> footnote.definition.endPos,
                      newText  |-> <<>>]>>
                   \o [k \in 1..Len(footnote.references) |->
                         [startPos |-> footnote.references[k].startPos,
                          endPos   |-> footnote.references[k].endPos,
                          newText  |-> <<>>]]
  IN CollapseSpaces(CollapseNewlines(ApplyInOrder(content, SortDescending(deletions))))

PerformReferenceOnlyDeletion(content, footnote) ==
  CollapseSpaces(Splice(content, footnote.references[1].startPos,
                        footnote.references[1].endPos, <<>>))

\* the branch on matchingFootnote; matching is <<>> when find returned undefined
DeleteMatching(content, matching) ==
  IF matching = <<>> THEN content
  ELSE IF matching[1].referenceCount = 1
       THEN PerformFullFootnoteDeletion(content, matching[1])
       ELSE PerformReferenceOnlyDeletion(content, matching[1])

\* deleteFootnoteFromEditor: the text the editor holds afterwards
DeleteFootnoteFromEditor(content, footnote) ==
  IF footnote.isUnreferenced
  THEN PerformUnreferencedFootnoteDeletion(content, footnote)
  ELSE DeleteMatching(content,
         FindByNumber(ExtractFootnotesWithUnreferenced(content).referencedFootnotes,
                      footnote.number))

\* the values deleteFootnoteFromEditor gives the editor: one setValue, none
\* when the footnote is not found
DeleteWrites(content, footnote) ==
  IF footnote.isUnreferenced
       \/ FindByNumber(ExtractFootnotesWithUnreferenced(content).referencedFootnotes,
                       footnote.number) # <<>>
  THEN <<DeleteFootnoteFromEditor(content, footnote)>>
  ELSE <<>>

PerformFootnoteUpdate(content, footnote, newContent) ==
  Splice(content, footnote.definition.startPos, footnote.definition.endPos,
         <<"[", "^">> \o footnote.number \o <<"]", ":", " ">> \o newContent)

\* the branch on matchingFootnote
UpdateMatching(content, matching, newContent) ==
  IF matching = <<>> THEN content
  ELSE PerformFootnoteUpdate(content, matching[1], newContent)

\* updateFootnoteInEditor: the text the editor holds afterwards
UpdateFootnoteInEditor(content, footnote, newContent) ==
  UpdateMatching(content,
    FindByNumber(ExtractFootnotesWithUnreferenced(content).referencedFootnotes, footnote.number),
    newContent)

\* the values updateFootnoteInEditor gives the editor: one setValue, none
\* when the footnote is not found
UpdateWrites(content, footnote, newContent) ==
  IF FindByNumber(ExtractFootnotesWithUnreferenced(content).referencedFootnotes,
                  footnote.number) # <<>>
  THEN <<UpdateFootnoteInEditor(content, footnote, newContent)>>
  ELSE <<>>

(***************************************************************************)
(* The documents the model starts from: one body line and up to MaxDefs     *)
(* definition lines, the body line placed before, between or after them.    *)
(***************************************************************************)
MaxDefs == 2

Ref(id) == <<"[", "^", id, "]">>

Def(id, rest) == Ref(id) \o <<":">> \o rest

BodyLines ==
  { Ref("1"), Ref("2"),
    Ref("3") \o <<" ">> \o Ref("1"),
    Ref("2") \o <<" ">> \o Ref("1"),
    Ref("0") \o <<" ">> \o Ref("1"),
    Ref("n") \o <<" ">> \o Ref("2"),
    <<"a", " ">> \o Ref("3") \o <<" ", "a">>,
    <<>> }

DefinitionLines ==
  { Def("1", <<" ", "a">>), Def("2", <<" ", "a">>), Def("3", <<" ", "a">>),
    Def("0", <<" ", "a">>), Def("n", <<" ", "a">>),
    Def("3", Ref("2")),
    Def("2", <<>>),
    <<" ">> \o Def("1", <<" ", "a">>) }

\* lines.join('\n')
RECURSIVE JoinLines(_)
JoinLines(ls) ==
  IF Len(ls) = 1 THEN ls[1] ELSE ls[1] \o <<NL>> \o JoinLines(Tail(ls))

\* the definition lines ds with the body line b put after the first p of them
WithBody(ds, b, p) == SubSeq(ds, 1, p) \o <<b>> \o SubSeq(ds, p + 1, Len(ds))

Docs ==
  UNION { { JoinLines(WithBody(ds, b, p)) :
              ds \in [1..k -> DefinitionLines], b \in BodyLines, p \in 0..k }
          : k \in 0..MaxDefs }

(***************************************************************************)
(* State.                                                                  *)
(*   text    the editor's content                                          *)
(*   panel   the footnotes the panel rendered at its last refresh, with    *)
(*           the text they were extracted from                             *)
(*   dialog  <<>>, or the open renumber dialog: what renumberFootnotes     *)
(*           captured for its onConfirm callback                           *)
(*   last    the last operation: its name, the text it found (before), its *)
(*           inputs, the id Insert chose (number), the content after the   *)
(*           renumbering's first step (mid), and the text the spans it cut *)
(*           with were parsed from (spanSrc)                               *)
(*   budget  operations left; opening the renumber dialog takes one, its   *)
(*           buttons none                                                  *)
(***************************************************************************)
Snapshot(t) == [footnotes |-> ExtractFootnotes(t), src |-> t]

NoLast ==
  [op |-> "none", before |-> <<>>, removeOrphaned |-> FALSE, fillGaps |-> FALSE,
   cursor |-> 0, number |-> <<>>, target |-> <<>>, mid |-> <<>>, spanSrc |-> <<>>,
   writes |-> <<>>]

\* the cursor offsets Insert footnote is tried at
Cursors(t) == {0, Len(t) \div 2, Len(t)}

\* the contents typed into the panel's edit box
NewContents == {<<"b">>, <<>>}

\* refreshFootnotesView() at the end of a handler: it re-renders the panel
\* unless a skip window is active
RefreshedOrSkipped(t) == {panel, Snapshot(t)}

\* further documents: a footnote referenced twice, runs of spaces next to
\* and away from the references
MoreDocs ==
  { JoinLines(<<Ref("1") \o <<" ">> \o Ref("1"), Def("1", <<" ", "a">>)>>),
    JoinLines(<<<<"a", " ", " ", "a", " ">> \o Ref("1") \o <<" ">> \o Ref("1"),
                Def("1", <<" ", "a">>)>>),
    JoinLines(<<<<"a", " ", " ", "a", " ">> \o Ref("3") \o <<" ", "a">>,
                Def("1", <<" ", "a">>)>>) }

Init ==
  /\ text \in Docs \cup MoreDocs
  /\ panel = Snapshot(text)
  /\ dialog = <<>>
  /\ last = NoLast
  /\ budget = 1
  /\ plugin = <<>>
  /\ host = <<>>

\* what renumberFootnotes hands to the dialog and its onConfirm callback
OpenDialog(content, referencedFootnotes) ==
  [footnotes    |-> referencedFootnotes,
   orphanedRefs |-> FindOrphanedReferences(content),
   gaps         |-> GapsOf(referencedFootnotes),
   src          |-> content]

\* renumberFootnotes, reached from the panel's renumber button
RenumberFootnotes ==
  /\ budget > 0
  /\ dialog = <<>>
  /\ panel.footnotes # <<>>
  /\ dialog' = <<OpenDialog(text, ExtractFootnotesWithUnreferenced(text).referencedFootnotes)>>
  /\ ~(Len(dialog'[1].footnotes) = 0 /\ Len(dialog'[1].orphanedRefs) = 0)
  /\ budget' = budget - 1
  /\ UNCHANGED <<text, panel, last>>
  /\ UNCHANGED <<plugin, host>>

\* the dialog's checkboxes exist only for the issues found
CanCheck(d, removeOrphaned, fillGaps) ==
  /\ removeOrphaned => Len(d.orphanedRefs) > 0
  /\ fillGaps => Len(d.gaps) > 0
  /\ removeOrphaned \/ fillGaps

\* "Apply Selected Changes": onConfirm -> performEnhancedRenumbering
ConfirmRenumber ==
  /\ dialog # <<>>
  /\ \E removeOrphaned \in BOOLEAN, fillGaps \in BOOLEAN :
       LET d == dialog[1]
       IN /\ CanCheck(d, removeOrphaned, fillGaps)
          /\ text' = PerformEnhancedRenumbering(text, d.footnotes, d.orphanedRefs,
                                                removeOrphaned, fillGaps)
          /\ last' = [NoLast EXCEPT !.op = "renumber", !.before = text,
                                    !.removeOrphaned = removeOrphaned,
                                    !.fillGaps = fillGaps,
                                    !.mid = RemoveOrphanedStep(text, d.orphanedRefs,
                                                               removeOrphaned),
                                    !.spanSrc = IF removeOrphaned THEN d.src ELSE text,
                                    !.writes = <<text'>>]
  /\ dialog' = <<>>
  /\ panel' \in RefreshedOrSkipped(text')
  /\ UNCHANGED budget
  /\ UNCHANGED <<plugin, host>>

\* the dialog's Cancel button
CancelRenumber ==
  /\ dialog # <<>>
  /\ dialog' = <<>>
  /\ UNCHANGED <<text, panel, last, budget>>
  /\ UNCHANGED <<plugin, host>>

\* the "Insert footnote" command
Insert ==
  /\ budget > 0
  /\ dialog = <<>>
  /\ \E cursor \in Cursors(text) :
       /\ text' = InsertFootnote(text, cursor)
       /\ last' = [NoLast EXCEPT !.op = "insert", !.before = text, !.cursor = cursor,
                                 !.number = ToStr(NextNumber(text)), !.spanSrc = text,
                                 !.writes = InsertWrites(text, cursor)]
  /\ panel' \in RefreshedOrSkipped(text')
  /\ budget' = budget - 1
  /\ UNCHANGED dialog
  /\ UNCHANGED <<plugin, host>>

\* the delete button of a footnote the panel shows
Delete ==
  /\ budget > 0
  /\ dialog = <<>>
  /\ \E k \in 1..Len(panel.footnotes) :
       LET footnote == panel.footnotes[k]
       IN /\ text' = DeleteFootnoteFromEditor(text, footnote)
          /\ last' = [NoLast EXCEPT !.op = "delete", !.before = text,
                                    !.target = <<footnote>>,
                                    !.spanSrc = IF footnote.isUnreferenced
                                                THEN panel.src ELSE text,
                                    !.writes = DeleteWrites(text, footnote)]
  /\ budget' = budget - 1
  /\ UNCHANGED <<panel, dialog>>
  /\ UNCHANGED <<plugin, host>>

\* saving the edit box of a referenced footnote the panel shows
Update ==
  /\ budget > 0
  /\ dialog = <<>>
  /\ \E k \in 1..Len(panel.footnotes), newContent \in NewContents :
       LET footnote == panel.footnotes[k]
       IN /\ ~footnote.isUnreferenced
          /\ newContent # footnote.content
          /\ text' = UpdateFootnoteInEditor(text, footnote, newContent)
          /\ last' = [NoLast EXCEPT !.op = "update", !.before = text,
                                    !.target = <<footnote>>, !.spanSrc = text,
                                    !.writes = UpdateWrites(text, footnote, newContent)]
  /\ budget' = budget - 1
  /\ UNCHANGED <<panel, dialog>>
  /\ UNCHANGED <<plugin, host>>

Next ==
  \/ RenumberFootnotes
  \/ ConfirmRenumber
  \/ CancelRenumber
  \/ Insert
  \/ Delete
  \/ Update

Spec == Init /\ [][Next]_vars

(***************************************************************************)
(* The panel next to a document that changes under it: the text is edited  *)
(* while the panel shows an earlier extraction or while the renumber       *)
(* dialog is open, and the panel refreshes at some later moment.           *)
(***************************************************************************)
MaxSteps == 3

PanelDocs ==
  { JoinLines(<<Ref("2"), Def("2", <<" ", "a">>), Def("1", <<" ", "a">>)>>),
    JoinLines(<<<<"a", " ">> \o Ref("3") \o <<" ", "a">>, Def("1", <<" ", "a">>)>>),
    JoinLines(<<Ref("1"), Def("1", <<" ", "a">>)>>) }

\* what an edit types
EditTokens == { <<"a">>, <<NL>> \o Ref("1") }

InitPanel ==
  /\ text \in PanelDocs
  /\ panel = Snapshot(text)
  /\ dialog = <<>>
  /\ last = NoLast
  /\ budget = MaxSteps
  /\ plugin = <<>>
  /\ host = <<>>

\* typing, pasting or an external change of the file: no handler of the
\* plugin runs before the debounced refresh
UserEdit ==
  /\ budget > 0
  /\ \E tok \in EditTokens, pos \in {0, Len(text)} :
       text' = Splice(text, pos, pos, tok)
  /\ budget' = budget - 1
  /\ last' = NoLast
  /\ UNCHANGED <<panel, dialog>>
  /\ UNCHANGED <<plugin, host>>

\* FootnotesView.refresh: the panel re-extracts from the editor
Refresh ==
  /\ panel # Snapshot(text)
  /\ panel' = Snapshot(text)
  /\ UNCHANGED <<text, dialog, last, budget>>
  /\ UNCHANGED <<plugin, host>>

NextPanel ==
  \/ RenumberFootnotes
  \/ ConfirmRenumber
  \/ CancelRenumber
  \/ Insert
  \/ Delete
  \/ Update
  \/ UserEdit
  \/ Refresh

SpecPanel == InitPanel /\ [][NextPanel]_vars

(***************************************************************************)
(* Properties of the extraction.                                           *)
(***************************************************************************)
Overlap(a, b) == a.startPos < b.endPos /\ b.startPos < a.endPos

PairwiseDisjoint(spans) ==
  \A i \in 1..Len(spans), j \in 1..Len(spans) : i < j => ~Overlap(spans[i], spans[j])

DefinitionSpans(footnotes) == [k \in 1..Len(footnotes) |-> footnotes[k].definition]

ReferenceSpans(footnotes) == Flatten([k \in 1..Len(footnotes) |-> footnotes[k].references])

SpansOf(footnotes, orphanedRefs) ==
  DefinitionSpans(footnotes) \o ReferenceSpans(footnotes) \o orphanedRefs

\* C1: in every document the program reaches, no two spans among the
\* definition spans, the reference spans and the orphaned-reference spans
\* that extraction produces overlap.
C1_Disjointness == PairwiseDisjoint(SpansOf(ExtractFootnotes(text), FindOrphanedReferences(text)))

RECURSIVE SumReferenceCounts(_)
SumReferenceCounts(footnotes) ==
  IF footnotes = <<>> THEN 0
  ELSE Head(footnotes).referenceCount + SumReferenceCounts(Tail(footnotes))

\* how many records carry the id
RecordsOf(footnotes, number) == Cardinality({k \in 1..Len(footnotes) : footnotes[k].number = number})

\* the [^id] tokens that do not open a definition-regex match
NonOpeningTokens(tokens, defMatches) ==
  LET notOpening(m) == \A k \in 1..Len(defMatches) : defMatches[k].startPos # m.startPos
  IN SelectSeq(tokens, notOpening)

ClassificationComplete(r, orphanedRefs, defMatches, tokens) ==
  /\ \A k \in 1..Len(defMatches) :
       RecordsOf(r.referencedFootnotes, defMatches[k].number)
         + RecordsOf(r.unreferencedFootnotes, defMatches[k].number) = 1
  /\ \A k \in 1..Len(orphanedRefs) :
       /\ \A j \in 1..Len(defMatches) : defMatches[j].number # orphanedRefs[k].number
       /\ \A j \in 1..Len(r.referencedFootnotes) :
            \A i \in 1..Len(r.referencedFootnotes[j].references) :
              r.referencedFootnotes[j].references[i].startPos # orphanedRefs[k].startPos
  /\ Len(r.referencedFootnotes) + Len(r.unreferencedFootnotes) = Len(defMatches)
  /\ SumReferenceCounts(r.referencedFootnotes) + Len(orphanedRefs)
       = Len(NonOpeningTokens(tokens, defMatches))

\* C3: in every document, each id with a definition is in exactly one of
\* the referenced / unreferenced lists, each orphaned reference has no
\* definition and is in no record, the records are as many as the
\* definition-regex matches, and record references plus orphaned
\* references are as many as the [^id] tokens that do not open a definition.
C3_ClassificationComplete ==
  ClassificationComplete(ExtractFootnotesWithUnreferenced(text),
                         FindOrphanedReferences(text),
                         DefinitionMatches(text, 0),
                         ReferenceMatches(text, 0))

(***************************************************************************)
(* Properties of renumbering.                                              *)
(***************************************************************************)
\* a fill-gaps renumbering has just run, on the content last.mid
FillGapsRan == last.op = "renumber" /\ last.fillGaps

Referenced(t) == ExtractFootnotesWithUnreferenced(t).referencedFootnotes

SortAscending(reps) ==
  SortByKey(reps, [k \in 1..Len(reps) |-> reps[k].startPos])

\* src with each replacement put in place of its span, the characters
\* outside the spans copied; reps ascending by start
RECURSIVE Rewritten(_, _, _)
Rewritten(src, reps, pos) ==
  IF reps = <<>> THEN SubFrom(src, pos)
  ELSE Sub(src, pos, Head(reps).startPos) \o Head(reps).newText
       \o Rewritten(src, Tail(reps), Max(pos, Head(reps).endPos))

EditSetValid(src, reps, result) ==
  /\ PairwiseDisjoint(reps)
  /\ result = Rewritten(src, SortAscending(reps), 0)

\* C2: when fill-gaps renumbering has run, the replacements it collected
\* are pairwise non-overlapping spans of the text they were applied to, and
\* the result is that text with each span replaced and every other
\* character unchanged.
C2_EditSetValid ==
  FillGapsRan => EditSetValid(last.mid, AllReplacements(Referenced(last.mid)), text)

\* the rank of f among the footnotes by the offset of the first reference
RankByFirstReference(footnotes, f) ==
  1 + Cardinality({k \in 1..Len(footnotes) :
                     footnotes[k].references[1].startPos < f.references[1].startPos})

RenumberResult(before, after) ==
  /\ Len(after) = Len(before)
  /\ SeqToSet([k \in 1..Len(after) |-> after[k].number])
       = {ToStr(k) : k \in 1..Len(before)}
  /\ \A k \in 1..Len(before) :
       \E j \in 1..Len(after) :
         /\ after[j].number = ToStr(RankByFirstReference(before, before[k]))
         /\ after[j].content = before[k].content
         /\ after[j].referenceCount = before[k].referenceCount

\* C7: after fill-gaps renumbering of a document with N referenced
\* footnotes, re-extraction yields the referenced ids 1..N, id k being the
\* footnote whose first reference has the k-th smallest offset, with its
\* content and its number of references kept.
C7_RenumberResult ==
  FillGapsRan => RenumberResult(Referenced(last.mid), Referenced(text))

\* renumbering once more: the dialog offers fill-gaps only when it finds gaps
RenumberAgain(t, referencedFootnotes) ==
  FillGapsStep(t, referencedFootnotes, Len(GapsOf(referencedFootnotes)) > 0)

\* C8: after a fill-gaps renumbering, re-extracting and renumbering again
\* changes nothing: the second text equals the first.
C8_Idempotent ==
  FillGapsRan => RenumberAgain(text, Referenced(text)) = text

\* the referenced ids that parse as integers
NumericIds(referencedFootnotes) ==
  {ParseInt(referencedFootnotes[k].number).val :
     k \in {j \in 1..Len(referencedFootnotes) : ~ParseInt(referencedFootnotes[j].number).nan}}

MaxOf(S) == IF S = {} THEN 0 ELSE CHOOSE m \in S : \A n \in S : n <= m

\* every integer 1..max is a referenced id
GapFree(referencedFootnotes) ==
  \A i \in 1..MaxOf(NumericIds(referencedFootnotes)) : i \in NumericIds(referencedFootnotes)

IdentityMapping(referencedFootnotes) ==
  \A k \in 1..Len(referencedFootnotes) :
    NewNumber(referencedFootnotes, referencedFootnotes[k].number) = referencedFootnotes[k].number

\* C9: when fill-gaps renumbering runs on a content whose referenced
\* numeric ids have no gaps, the old-id to new-id mapping is the identity
\* and the text is unchanged, whatever the order of the first references.
C9_GapFreeIdentity ==
  (FillGapsRan /\ GapFree(Referenced(last.mid)))
    => (IdentityMapping(Referenced(last.mid)) /\ text = last.mid)

ExpectedGaps(referencedFootnotes) ==
  {i \in 1..(MaxOf(NumericIds(referencedFootnotes)) - 1) : i \notin NumericIds(referencedFootnotes)}

GapsAre(gaps, expected) ==
  /\ Len(gaps) = Cardinality(expected)
  /\ SeqToSet(gaps) = {ToStr(i) : i \in expected}
  /\ \A i \in 1..Len(gaps), j \in 1..Len(gaps) :
       i < j => ParseInt(gaps[i]).val < ParseInt(gaps[j]).val

\* C10: the gaps the renumber dialog reports are exactly the integers i,
\* 1 <= i < max, that are not a referenced id, in ascending order, where max
\* is the largest referenced id that parses as an integer; other ids
\* contribute nothing.
C10_GapDetection ==
  dialog # <<>> => GapsAre(dialog[1].gaps, ExpectedGaps(Referenced(dialog[1].src)))

\* the dialog reports gaps that are the ids of an orphaned reference and of
\* an unreferenced definition of the document
C10_Witness ==
  /\ dialog # <<>>
  /\ \E k \in 1..Len(dialog[1].orphanedRefs) :
       dialog[1].orphanedRefs[k].number \in SeqToSet(dialog[1].gaps)
  /\ \E k \in 1..Len(ExtractFootnotesWithUnreferenced(dialog[1].src).unreferencedFootnotes) :
       ExtractFootnotesWithUnreferenced(dialog[1].src).unreferencedFootnotes[k].number
         \in SeqToSet(dialog[1].gaps)

(***************************************************************************)
(* Properties of Insert footnote.                                          *)
(***************************************************************************)
InsertRan == last.op = "insert"

DefinitionLine(number) == <<"[", "^">> \o number \o <<"]", ":", " ">>

\* the non-empty lines of a text, in order
NonEmptyLines(t) ==
  LET nonEmpty(l) == l # <<>>
  IN SelectSeq(SplitLines(t), nonEmpty)

\* the lines with one more put after the line of zero-based index i
LineAfter(lines, i, l) == SubSeq(lines, 1, i + 1) \o <<l>> \o SubSeq(lines, i + 2, Len(lines))

\* where the specification puts the new definition line: after the last line of the
\* old document that is a definition, at the end when there is none
ExpectedInsertLines(before, withRef, number) ==
  IF FootnotesStartLine(SplitLines(before)) = -1
  THEN SplitLines(withRef) \o <<DefinitionLine(number)>>
  ELSE LineAfter(SplitLines(withRef), FootnotesStartLine(SplitLines(before)),
                 DefinitionLine(number))

InsertPost(before, cursor, number, after) ==
  /\ NonEmptyLines(after)
       = SelectSeq(ExpectedInsertLines(before,
                     Splice(before, cursor, cursor, <<"[", "^">> \o number \o <<"]">>),
                     number),
                   LAMBDA l : l # <<>>)
  /\ \E k \in 1..Len(ExtractFootnotes(after)) :
       /\ ExtractFootnotes(after)[k].number = number
       /\ ExtractFootnotes(after)[k].referenceCount = 1

\* C5: after Insert footnote the document is the old one plus one new
\* reference at the cursor and one new definition line "[^id]: " right
\* after the last existing definition line, or at the end when there is
\* none (blank lines apart), and re-extraction yields a record of the new id
\* with exactly one reference.
C5_InsertPost ==
  InsertRan => InsertPost(last.before, last.cursor, last.number, text)

\* the smallest positive integer that is no referenced id
SmallestUnused(referencedFootnotes) ==
  CHOOSE n \in 1..(Len(referencedFootnotes) + 1) :
    /\ \A k \in 1..Len(referencedFootnotes) : referencedFootnotes[k].number # ToStr(n)
    /\ \A m \in 1..(n - 1) :
         \E k \in 1..Len(referencedFootnotes) : referencedFootnotes[k].number = ToStr(m)

\* C6: the id Insert footnote chooses is the smallest positive integer that
\* is not the id of an existing referenced footnote.
C6_SmallestUnused ==
  InsertRan => last.number = ToStr(SmallestUnused(Referenced(last.before)))

(***************************************************************************)
(* Properties of the panel next to a changing document.                    *)
(***************************************************************************)
\* C4: whatever the interleaving of edits, refreshes and panel actions, the
\* offsets an action cuts or replaces with were computed by parsing exactly
\* the text the action found in the editor.
C4_NoStaleSpans ==
  last.op \in {"delete", "update", "renumber"} => last.spanSrc = last.before

(***************************************************************************)
(* Properties of the panel's delete button.                                *)
(***************************************************************************)
\* the panel's delete button has run on a footnote it shows as referenced
\* and that the text it found still references
DeleteOneRan ==
  /\ last.op = "delete"
  /\ ~last.target[1].isUnreferenced
  /\ FindByNumber(Referenced(last.before), last.target[1].number) # <<>>

\* src without the characters that lie in one of the spans
Removed(src, spans) ==
  LET outside(i) == \A k \in 1..Len(spans) :
                      ~(spans[k].startPos < i /\ i <= spans[k].endPos)
      kept == SelectSeq([i \in 1..Len(src) |-> i], outside)
  IN [j \in 1..Len(kept) |-> src[kept[j]]]

\* the record f of before is in after with one reference fewer
OneReferenceFewer(f, after) ==
  \E k \in 1..Len(after) :
    /\ after[k].number = f.number
    /\ after[k].content = f.content
    /\ after[k].referenceCount = f.referenceCount - 1

DeleteOne(before, f, after) ==
  IF f.referenceCount = 1
  THEN after = CollapseSpaces(CollapseNewlines(
                 Removed(before, <<f.definition, f.references[1]>>)))
  ELSE /\ after = CollapseSpaces(Removed(before, <<f.references[1]>>))
       /\ OneReferenceFewer(f, ExtractFootnotes(after))

\* C11: deleting a footnote with exactly one reference removes its
\* definition span and that reference span; deleting one with more
\* references removes only the first reference in document order, and
\* re-extraction yields the same record with one reference fewer (white
\* space normalised as the operation does).
C11_DeleteOne ==
  DeleteOneRan =>
    DeleteOne(last.before,
              FindByNumber(Referenced(last.before), last.target[1].number)[1],
              text)

(***************************************************************************)
(* Properties of the removal of orphaned references.                       *)
(***************************************************************************)
\* a renumbering that removes orphaned references has just run
OrphanRemovalRan ==
  /\ last.op = "renumber"
  /\ last.removeOrphaned
  /\ Len(FindOrphanedReferences(last.before)) > 0

\* the one-based indices of the characters of src outside the spans
KeptIndices(src, spans) ==
  LET outside(i) == \A k \in 1..Len(spans) :
                      ~(spans[k].startPos < i /\ i <= spans[k].endPos)
  IN SelectSeq([i \in 1..Len(src) |-> i], outside)

\* kept[m-1] and kept[m] were not neighbours in the source: a span was cut
\* between them
Junction(kept, m) == m > 1 /\ kept[m] # kept[m-1] + 1

\* positions a..b of the kept characters are all spaces
AllSpaces(src, kept, a, b) == \A m \in a..b : src[kept[m]] = " "

\* the kept character m is a space that follows a space, in a run of spaces
\* that a cut joined together
InCreatedRun(src, kept, m) ==
  /\ m > 1
  /\ src[kept[m]] = " "
  /\ src[kept[m-1]] = " "
  /\ \E j \in 2..Len(kept) :
        /\ Junction(kept, j)
        /\ AllSpaces(src, kept, Min(j - 1, m - 1), Max(j, m))

\* src without the spans, the runs of spaces joined by a cut collapsed to
\* one space, every other character as it was
RemovedWithCreatedRunsCollapsed(src, kept) ==
  LET stay(m) == ~InCreatedRun(src, kept, m)
      left == SelectSeq([m \in 1..Len(kept) |-> m], stay)
  IN [n \in 1..Len(left) |-> src[kept[left[n]]]]

OrphanRemovalFrame(before, orphanedRefs, after) ==
  after = RemovedWithCreatedRunsCollapsed(before, KeptIndices(before, orphanedRefs))

\* C12: removing orphaned references deletes exactly the orphaned reference
\* spans and collapses only the runs of two or more spaces that those
\* deletions created; every other character, the runs of several spaces
\* that existed elsewhere before the operation included, is unchanged.
C12_OrphanRemovalFrame ==
  OrphanRemovalRan
    => OrphanRemovalFrame(last.before, FindOrphanedReferences(last.before), last.mid)

(***************************************************************************)
(* Properties of the deletion of an unreferenced footnote.                 *)
(***************************************************************************)
\* the panel's delete button has run on a footnote it shows as unreferenced
UnreferencedDeleteRan ==
  /\ last.op = "delete"
  /\ last.target[1].isUnreferenced

\* the ids of the reference tokens of t, in document order
ReferenceIds(t) == [k \in 1..Len(References(t)) |-> References(t)[k].number]

\* id and content of the definitions in ms
IdsAndContents(ms) ==
  [k \in 1..Len(ms) |-> [number |-> ms[k].number, content |-> ms[k].content]]

\* the definitions of t other than the one that starts at startPos
OtherDefinitions(t, startPos) ==
  LET other(m) == m.startPos # startPos
  IN IdsAndContents(SelectSeq(DefinitionMatches(t, 0), other))

NoRecordWithId(footnotes, number) ==
  \A k \in 1..Len(footnotes) : footnotes[k].number # number

UnreferencedDelete(before, f, after) ==
  /\ after = CollapseNewlines(Removed(before, <<f.definition>>))
  /\ ReferenceIds(after) = ReferenceIds(before)
  /\ IdsAndContents(DefinitionMatches(after, 0)) = OtherDefinitions(before, f.definition.startPos)
  /\ NoRecordWithId(ExtractFootnotes(after), f.number)

\* C13: removing an unreferenced footnote deletes exactly its definition
\* span and then collapses every run of three or more newlines to two; all
\* references, all other definitions and their contents are unchanged, and
\* re-extracting yields no record with that id.
C13_UnreferencedDelete ==
  UnreferencedDeleteRan => UnreferencedDelete(last.before, last.target[1], text)

(***************************************************************************)
(* The outline view: headers and the grouping of footnotes under them.     *)
(* A header is [text, level, line]; "HeaderData | null" is a sequence of   *)
(* at most one header.  A group is [header, footnotes, parent]: parent is  *)
(* the index, in the list of groups, of the group whose children hold it,  *)
(* 0 when it has none.  The value returned to the view is the list of      *)
(* groups and the indices of the root groups in order.                     *)
(***************************************************************************)
\* String.prototype.trim
RECURSIVE TrimEnd(_)
TrimEnd(s) ==
  IF s # <<>> /\ s[Len(s)] \in SpaceChars THEN TrimEnd(SubSeq(s, 1, Len(s) - 1)) ELSE s

Trim(s) == TrimEnd(SubFrom(s, RunEnd(s, 0, SpaceChars)))

\* /^(#{1,6})\s+(.+)$/ on a trimmed line: the header it is, if any
HeaderOfLine(trimmed, lineIndex) ==
  LET hashes == RunEnd(trimmed, 0, {"#"})
      rest   == RunEnd(trimmed, hashes, SpaceChars)
  IN IF hashes >= 1 /\ hashes <= 6 /\ rest > hashes /\ rest < Len(trimmed)
     THEN <<[text |-> Trim(SubFrom(trimmed, rest)), level |-> hashes, line |-> lineIndex]>>
     ELSE <<>>

ExtractHeaders(content) ==
  LET lines == SplitLines(content)
  IN Flatten([k \in 1..Len(lines) |-> HeaderOfLine(Trim(lines[k]), k - 1)])

\* [...headers].sort((a, b) => a.line - b.line)
SortedHeaders(headers) ==
  SortByKey(headers, [k \in 1..Len(headers) |-> headers[k].line])

\* the last header on the line itself or on a line before it
RECURSIVE NearestHeaderAtOrBefore(_, _, _)
NearestHeaderAtOrBefore(sortedHeaders, i, line) ==
  IF i < 1 THEN <<>>
  ELSE IF sortedHeaders[i].line <= line THEN <<sortedHeaders[i]>>
       ELSE NearestHeaderAtOrBefore(sortedHeaders, i - 1, line)

\* the loop from the last header down: the last header on a line before line
RECURSIVE NearestHeader(_, _, _)
NearestHeader(sortedHeaders, i, line) ==
  IF i < 1 THEN <<>>
  ELSE IF sortedHeaders[i].line < line THEN <<sortedHeaders[i]>>
       ELSE NearestHeader(sortedHeaders, i - 1, line)

\* the test of groups.find and of the references filter
SameHeader(a, b) ==
  \/ a = <<>> /\ b = <<>>
  \/ a # <<>> /\ b # <<>> /\ a[1].line = b[1].line

\* Set.add over a list kept in insertion order
RECURSIVE AddAll(_, _)
AddAll(set, items) ==
  IF items = <<>> THEN set
  ELSE AddAll(IF \E k \in 1..Len(set) : set[k] = Head(items) THEN set
              ELSE Append(set, Head(items)),
              Tail(items))

\* footnoteSectionMap.get(footnote.number): the sections of the references
Sections(footnote, sortedHeaders) ==
  AddAll(<<>>, [r \in 1..Len(footnote.references) |->
                 NearestHeader(sortedHeaders, Len(sortedHeaders), footnote.references[r].line)])

\* the copy of the footnote with all its references, whatever the section
FootnoteForSectionAll(footnote, sections, nearestHeader, sortedHeaders) ==
  [number          |-> footnote.number,
   content         |-> footnote.content,
   definition      |-> footnote.definition,
   references      |-> footnote.references,
   referenceCount  |-> footnote.referenceCount,
   isUnreferenced  |-> footnote.isUnreferenced,
   appearanceCount |-> Len(sections),
   isMultiSection  |-> Len(sections) > 1]

\* footnoteForSection: the copy with the references of one section
FootnoteForSection(footnote, sections, nearestHeader, sortedHeaders) ==
  LET inSection(ref) ==
        SameHeader(NearestHeader(sortedHeaders, Len(sortedHeaders), ref.line), nearestHeader)
  IN [number          |-> footnote.number,
      content         |-> footnote.content,
      definition      |-> footnote.definition,
      references      |-> SelectSeq(footnote.references, inSection),
      referenceCount  |-> footnote.referenceCount,
      isUnreferenced  |-> footnote.isUnreferenced,
      appearanceCount |-> Len(sections),
      isMultiSection  |-> Len(sections) > 1]

\* groups.find(...), group.footnotes.push(...): one footnote put under one
\* header
PushToGroup(groups, header, footnote) ==
  IF \E g \in 1..Len(groups) : SameHeader(groups[g].header, header)
  THEN LET g == CHOOSE g \in 1..Len(groups) :
                  /\ SameHeader(groups[g].header, header)
                  /\ \A h \in 1..(g - 1) : ~SameHeader(groups[h].header, header)
       IN [groups EXCEPT ![g].footnotes = Append(@, footnote)]
  ELSE Append(groups, [header |-> header, footnotes |-> <<footnote>>, parent |-> 0])

\* sections.forEach for one footnote
RECURSIVE PushSections(_, _, _, _, _)
PushSections(groups, footnote, sections, s, sortedHeaders) ==
  IF s > Len(sections) THEN groups
  ELSE PushSections(PushToGroup(groups, sections[s],
                                FootnoteForSection(footnote, sections, sections[s], sortedHeaders)),
                    footnote, sections, s + 1, sortedHeaders)

\* footnotes.forEach: a footnote without references has no entry in
\* footnoteSectionMap and is skipped
RECURSIVE PushFootnotes(_, _, _)
PushFootnotes(groups, footnotes, sortedHeaders) ==
  IF footnotes = <<>> THEN groups
  ELSE PushFootnotes(PushSections(groups, Head(footnotes),
                                  Sections(Head(footnotes), sortedHeaders), 1, sortedHeaders),
                     Tail(footnotes), sortedHeaders)

\* localeCompare on ids: the symbols before the digits before the letters
CollationRank(c) ==
  CASE c = "_" -> 0 [] c = "-" -> 1 [] c \in Digits -> 2 + DigitVal(c)
    [] c = "a" -> 12 [] OTHER -> 13

RECURSIVE LocaleCompare(_, _)
LocaleCompare(a, b) ==
  IF a = <<>> /\ b = <<>> THEN 0
  ELSE IF a = <<>> THEN -1
  ELSE IF b = <<>> THEN 1
  ELSE IF CollationRank(Head(a)) # CollationRank(Head(b))
       THEN CollationRank(Head(a)) - CollationRank(Head(b))
       ELSE LocaleCompare(Tail(a), Tail(b))

\* the comparator of group.footnotes.sort
CompareNumbers(a, b) ==
  IF ParseInt(a.number).nan \/ ParseInt(b.number).nan
  THEN LocaleCompare(a.number, b.number)
  ELSE ParseInt(a.number).val - ParseInt(b.number).val

\* group.footnotes.sort(...), stable
SortGroupFootnotes(footnotes) ==
  LET rank(i) == 1 + Cardinality({j \in 1..Len(footnotes) :
                      \/ CompareNumbers(footnotes[j], footnotes[i]) < 0
                      \/ (CompareNumbers(footnotes[j], footnotes[i]) = 0 /\ j < i)})
  IN [p \in 1..Len(footnotes) |-> footnotes[CHOOSE i \in 1..Len(footnotes) : rank(i) = p]]

SortWithinGroups(groups) ==
  [g \in 1..Len(groups) |-> [groups[g] EXCEPT !.footnotes = SortGroupFootnotes(@)]]

\* the comparator of groups.sort: the group without header first, the
\* others by the line of their header
CompareGroups(a, b) ==
  IF a.header = <<>> /\ b.header = <<>> THEN 0
  ELSE IF a.header = <<>> THEN -1
  ELSE IF b.header = <<>> THEN 1
  ELSE a.header[1].line - b.header[1].line

SortGroups(groups) ==
  LET rank(i) == 1 + Cardinality({j \in 1..Len(groups) :
                      \/ CompareGroups(groups[j], groups[i]) < 0
                      \/ (CompareGroups(groups[j], groups[i]) = 0 /\ j < i)})
  IN [p \in 1..Len(groups) |-> groups[CHOOSE i \in 1..Len(groups) : rank(i) = p]]

\* the groups without header among flatGroups; noHeaderGroup is the last
NoHeaderGroups(flatGroups) ==
  LET noHeader(g) == g.header = <<>>
  IN SelectSeq(flatGroups, noHeader)

\* footnoteGroupsByHeaderLine.get(header.line), or the empty group made for
\* a header that has none
GroupOfHeader(flatGroups, header) ==
  LET onLine(g) == g.header # <<>> /\ g.header[1].line = header.line
      found == SelectSeq(flatGroups, onLine)
  IN IF found # <<>> THEN found[Len(found)]
     ELSE [header |-> <<header>>, footnotes |-> <<>>, parent |-> 0]

\* allGroups: the group without header, then one group per header of the
\* document in line order
AllGroups(flatGroups, allHeaders) ==
  LET none   == NoHeaderGroups(flatGroups)
      sorted == SortedHeaders(allHeaders)
  IN (IF none # <<>> THEN <<none[Len(none)]>> ELSE <<>>)
       \o [k \in 1..Len(sorted) |-> GroupOfHeader(flatGroups, sorted[k])]

\* the stack popped only while its top has a greater level
RECURSIVE PopStackStrict(_, _, _)
PopStackStrict(stack, allGroups, level) ==
  IF stack # <<>> /\ allGroups[stack[Len(stack)]].header[1].level > level
  THEN PopStackStrict(SubSeq(stack, 1, Len(stack) - 1), allGroups, level)
  ELSE stack

\* while (stack.length > 0 && top.header.level >= group.header.level) pop
RECURSIVE PopStack(_, _, _)
PopStack(stack, allGroups, level) ==
  IF stack # <<>> /\ allGroups[stack[Len(stack)]].header[1].level >= level
  THEN PopStack(SubSeq(stack, 1, Len(stack) - 1), allGroups, level)
  ELSE stack

\* the loop over allGroups that nests each header's group under the nearest
\* earlier group of a smaller level
RECURSIVE Nest(_, _, _, _)
Nest(allGroups, k, stack, roots) ==
  IF k > Len(allGroups) THEN [groups |-> allGroups, roots |-> roots]
  ELSE IF allGroups[k].header = <<>>
       THEN Nest(allGroups, k + 1, stack, Append(roots, k))
       ELSE LET popped == PopStack(stack, allGroups, allGroups[k].header[1].level)
            IN IF popped # <<>>
               THEN Nest([allGroups EXCEPT ![k].parent = popped[Len(popped)]],
                         k + 1, Append(popped, k), roots)
               ELSE Nest(allGroups, k + 1, <<k>>, Append(roots, k))

BuildHierarchicalGroups(flatGroups, allHeaders) ==
  Nest(AllGroups(flatGroups, allHeaders), 1, <<>>, <<>>)

GroupFootnotesByHeaders(footnotes, headers) ==
  BuildHierarchicalGroups(
    SortGroups(SortWithinGroups(PushFootnotes(<<>>, footnotes, SortedHeaders(headers)))),
    headers)

(***************************************************************************)
(* The grouping of the earlier revision: one group per footnote, that of   *)
(* its first reference, and a virtual group for the unreferenced ones.     *)
(***************************************************************************)
\* the header of the virtual group: "Unreferenced Footnotes", level 1,
\* line -1
UnreferencedHeader ==
  [text  |-> <<"U", "n", "r", "e", "f", "e", "r", "e", "n", "c", "e", "d", " ", "F", "o", "o", "t", "n", "o", "t", "e", "s">>,
   level |-> 1,
   line  |-> -1]

\* referencedFootnotes.forEach: each footnote under the header of its first
\* reference
RECURSIVE PushByFirstReference(_, _, _)
PushByFirstReference(groups, referencedFootnotes, sortedHeaders) ==
  IF referencedFootnotes = <<>> THEN groups
  ELSE PushByFirstReference(
         PushToGroup(groups,
                     NearestHeader(sortedHeaders, Len(sortedHeaders),
                                   Head(referencedFootnotes).references[1].line),
                     Head(referencedFootnotes)),
         Tail(referencedFootnotes), sortedHeaders)

\* "if (unreferencedFootnotes.length > 0) groups.push(unreferencedGroup)"
WithUnreferencedGroup(groups, unreferencedFootnotes) ==
  IF Len(unreferencedFootnotes) > 0
  THEN Append(groups, [header |-> <<UnreferencedHeader>>,
                       footnotes |-> unreferencedFootnotes, parent |-> 0])
  ELSE groups

\* the comparator of groups.sort with the virtual group last
CompareGroupsOld(a, b) ==
  IF a.header = <<>> /\ b.header = <<>> THEN 0
  ELSE IF a.header = <<>> THEN -1
  ELSE IF b.header = <<>> THEN 1
  ELSE IF a.header[1].line = -1 THEN 1
  ELSE IF b.header[1].line = -1 THEN -1
  ELSE a.header[1].line - b.header[1].line

SortGroupsOld(groups) ==
  LET rank(i) == 1 + Cardinality({j \in 1..Len(groups) :
                      \/ CompareGroupsOld(groups[j], groups[i]) < 0
                      \/ (CompareGroupsOld(groups[j], groups[i]) = 0 /\ j < i)})
  IN [p \in 1..Len(groups) |-> groups[CHOOSE i \in 1..Len(groups) : rank(i) = p]]

\* the virtual groups among flatGroups; unreferencedGroup is the last
UnreferencedGroups(flatGroups) ==
  LET virtual(g) == g.header # <<>> /\ g.header[1].line = -1
  IN SelectSeq(flatGroups, virtual)

\* allGroups with the virtual group added at the end
AllGroupsOld(flatGroups, allHeaders) ==
  LET unref == UnreferencedGroups(flatGroups)
  IN AllGroups(flatGroups, allHeaders)
       \o (IF unref # <<>> THEN <<unref[Len(unref)]>> ELSE <<>>)

\* the nesting loop; the virtual group is a root and is not put on the stack
RECURSIVE NestOld(_, _, _, _)
NestOld(allGroups, k, stack, roots) ==
  IF k > Len(allGroups) THEN [groups |-> allGroups, roots |-> roots]
  ELSE IF allGroups[k].header = <<>> \/ allGroups[k].header[1].line = -1
       THEN NestOld(allGroups, k + 1, stack, Append(roots, k))
       ELSE LET popped == PopStack(stack, allGroups, allGroups[k].header[1].level)
            IN IF popped # <<>>
               THEN NestOld([allGroups EXCEPT ![k].parent = popped[Len(popped)]],
                            k + 1, Append(popped, k), roots)
               ELSE NestOld(allGroups, k + 1, <<k>>, Append(roots, k))

BuildHierarchicalGroupsOld(flatGroups, allHeaders) ==
  NestOld(AllGroupsOld(flatGroups, allHeaders), 1, <<>>, <<>>)

GroupFootnotesByHeadersOld(footnotes, headers) ==
  LET hasReferences(f) == Len(f.references) > 0
      hasNone(f) == Len(f.references) = 0
  IN BuildHierarchicalGroupsOld(
       SortGroupsOld(SortWithinGroups(
         WithUnreferencedGroup(
           PushByFirstReference(<<>>, SelectSeq(footnotes, hasReferences), SortedHeaders(headers)),
           SelectSeq(footnotes, hasNone)))),
       headers)

(***************************************************************************)
(* The outline view next to a changing document: the documents have        *)
(* headers of three levels, references before, between, after and on the     *)
(* header lines, and definitions with and without references.              *)
(***************************************************************************)
MaxOutlineEdits == 1

Header(level) == [k \in 1..level |-> "#"] \o <<" ", "a">>

OutlineLines ==
  { Header(1), Header(2), Header(3),
    Ref("1"), Ref("2"),
    Ref("2") \o <<" ">> \o Ref("1"),
    Header(1) \o <<" ">> \o Ref("1") }

OutlineTails ==
  { <<Def("1", <<" ", "a">>)>>,
    <<Def("1", <<" ", "a">>), Def("2", <<" ", "a">>)>>,
    <<Def("3", <<" ", "a">>), Def("1", <<" ", "a">>)>> }

OutlineDocs ==
  { JoinLines(<<a, b, c>> \o tail) :
      a \in OutlineLines, b \in OutlineLines, c \in OutlineLines, tail \in OutlineTails }

\* what renderView shows in outline mode: the footnotes of the text and
\* their groups, as the current and as the earlier revision build them
OutlineSnapshot(t) ==
  [footnotes |-> ExtractFootnotes(t),
   src       |-> t,
   headers   |-> ExtractHeaders(t),
   groups    |-> GroupFootnotesByHeaders(ExtractFootnotes(t), ExtractHeaders(t)),
   groupsOld |-> GroupFootnotesByHeadersOld(ExtractFootnotes(t), ExtractHeaders(t))]

InitOutline ==
  /\ text \in OutlineDocs
  /\ panel = OutlineSnapshot(text)
  /\ dialog = <<>>
  /\ last = NoLast
  /\ budget = MaxOutlineEdits
  /\ plugin = <<>>
  /\ host = <<>>

\* FootnotesView.renderView in outline mode, after the editor changed
RenderOutline ==
  /\ panel.src # text
  /\ panel' = OutlineSnapshot(text)
  /\ UNCHANGED <<text, dialog, last, budget>>
  /\ UNCHANGED <<plugin, host>>

NextOutline ==
  \/ UserEdit
  \/ RenderOutline

SpecOutline == InitOutline /\ [][NextOutline]_vars

(***************************************************************************)
(* Properties of the grouping.                                             *)
(***************************************************************************)
\* the records of footnotes without references
UnreferencedRecords(footnotes) ==
  LET hasNone(f) == Len(f.references) = 0
  IN SelectSeq(footnotes, hasNone)

\* group g of the result r is the virtual group: its header is no header of
\* the document
IsVirtual(r, g) == r.groups[g].header # <<>> /\ r.groups[g].header[1].line < 0

IsRoot(r, g) == \E k \in 1..Len(r.roots) : r.roots[k] = g

HasChildren(r, g) == \E c \in 1..Len(r.groups) : r.groups[c].parent = g

\* group g of r is the one bucket of the unreferenced records
IsUnreferencedBucket(r, g, unreferenced) ==
  /\ IsVirtual(r, g)
  /\ IsRoot(r, g)
  /\ r.roots[Len(r.roots)] = g
  /\ ~HasChildren(r, g)
  /\ r.groups[g].parent = 0
  /\ Len(r.groups[g].footnotes) = Len(unreferenced)
  /\ SeqToSet(r.groups[g].footnotes) = SeqToSet(unreferenced)

\* no group of r other than g holds a record without references
NoneElsewhere(r, g) ==
  \A h \in 1..Len(r.groups) :
    h # g => \A k \in 1..Len(r.groups[h].footnotes) :
               Len(r.groups[h].footnotes[k].references) > 0

UnreferencedBucket(r, footnotes) ==
  IF UnreferencedRecords(footnotes) = <<>>
  THEN NoneElsewhere(r, 0) /\ \A g \in 1..Len(r.groups) : ~IsVirtual(r, g)
  ELSE \E g \in 1..Len(r.groups) :
         /\ IsUnreferencedBucket(r, g, UnreferencedRecords(footnotes))
         /\ NoneElsewhere(r, g)
         /\ \A h \in 1..Len(r.groups) : IsVirtual(r, h) => h = g

\* C14: in both groupings, that of the current and that of the earlier
\* revision, every footnote record with zero references is in the result,
\* in one virtual Unreferenced group that is a root, is the last root, has
\* no children, and holds exactly the unreferenced records.
C14_UnreferencedBucket ==
  /\ UnreferencedBucket(panel.groups, panel.footnotes)
  /\ UnreferencedBucket(panel.groupsOld, panel.footnotes)

\* the line of the header that is the nearest before line: the greatest
\* header line strictly less than line, -1 (no header) when there is none
PrecedingHeaderLine(headers, line) ==
  LET before == {headers[k].line : k \in 1..Len(headers)} \cap 0..(line - 1)
  IN IF before = {} THEN -1
     ELSE CHOOSE l \in before : \A m \in before : m <= l

\* the line of a group's header, -1 for the group without header
GroupLine(group) == IF group.header = <<>> THEN -1 ELSE group.header[1].line

\* the appearances of the id number in the result r: <<group, position>>
Appearances(r, number) ==
  UNION {{<<g, k>> : k \in {j \in 1..Len(r.groups[g].footnotes) :
                               r.groups[g].footnotes[j].number = number}} :
         g \in 1..Len(r.groups)}

\* the sections of f: the header lines nearest before its references
SectionLines(f, headers) ==
  {PrecedingHeaderLine(headers, f.references[k].line) : k \in 1..Len(f.references)}

\* the references of f whose nearest preceding header is on line l
ReferencesUnder(f, headers, l) ==
  LET under(ref) == PrecedingHeaderLine(headers, ref.line) = l
  IN SelectSeq(f.references, under)

Covered(r, f, headers) ==
  /\ Cardinality(Appearances(r, f.number)) = Cardinality(SectionLines(f, headers))
  /\ \A l \in SectionLines(f, headers) :
        \E a \in Appearances(r, f.number) :
          /\ GroupLine(r.groups[a[1]]) = l
          /\ r.groups[a[1]].footnotes[a[2]].references = ReferencesUnder(f, headers, l)
          /\ r.groups[a[1]].footnotes[a[2]].appearanceCount = Cardinality(SectionLines(f, headers))
  /\ \A a \in Appearances(r, f.number), b \in Appearances(r, f.number) :
        a # b => (SeqToSet(r.groups[a[1]].footnotes[a[2]].references)
                    \cap SeqToSet(r.groups[b[1]].footnotes[b[2]].references) = {})
  /\ UNION {SeqToSet(r.groups[a[1]].footnotes[a[2]].references) : a \in Appearances(r, f.number)}
       = SeqToSet(f.references)

MultiSectionCoverage(r, footnotes, headers) ==
  \A k \in 1..Len(footnotes) :
    Len(footnotes[k].references) > 0 => Covered(r, footnotes[k], headers)

\* C15: in the multi-section grouping each referenced record appears in
\* exactly as many groups as its references have distinct nearest preceding
\* headers (the no-header group counted), once in the group of each; the
\* reference lists of its appearances are pairwise disjoint, their union is
\* the record's reference list, and each appearance holds exactly the
\* references whose nearest preceding header is that of its group.
C15_MultiSectionCoverage ==
  MultiSectionCoverage(panel.groups, panel.footnotes, panel.headers)

\* a footnote referenced before the first header, on a header line and in a
\* nested section is shown in three groups
C15_Witness ==
  \E k \in 1..Len(panel.footnotes) :
    /\ budget < MaxOutlineEdits
    /\ panel.src = text
    /\ Cardinality(SectionLines(panel.footnotes[k], panel.headers)) >= 2
    /\ -1 \in SectionLines(panel.footnotes[k], panel.headers)
    /\ \E a \in Appearances(panel.groups, panel.footnotes[k].number) :
          panel.groups.groups[a[1]].parent # 0
    /\ \E r \in 1..Len(panel.footnotes[k].references) :
          \E h \in 1..Len(panel.headers) :
            panel.headers[h].line = panel.footnotes[k].references[r].line

\* f is in exactly one group of r, the group of the header nearest before
\* the line of its first reference
InGroupOfFirstReference(r, f, headers) ==
  /\ Cardinality(Appearances(r, f.number)) = 1
  /\ \A a \in Appearances(r, f.number) :
        /\ ~IsVirtual(r, a[1])
        /\ GroupLine(r.groups[a[1]]) = PrecedingHeaderLine(headers, f.references[1].line)
        /\ r.groups[a[1]].footnotes[a[2]] = f

SingleSection(r, footnotes, headers) ==
  \A k \in 1..Len(footnotes) :
    Len(footnotes[k].references) > 0 => InGroupOfFirstReference(r, footnotes[k], headers)

\* C16: in the single-section grouping each referenced record is in exactly
\* one group, that of the header with the greatest line strictly less than
\* the line of the record's first reference, or the no-header group when no
\* header line is strictly less; a reference on a header's own line belongs
\* to the previous section.
C16_SingleSection ==
  SingleSection(panel.groupsOld, panel.footnotes, panel.headers)

\* after an edit, a footnote whose first reference is on the line of the
\* second header is shown under the first header
C16_Witness ==
  /\ budget < MaxOutlineEdits
  /\ panel.src = text
  /\ \E k \in 1..Len(panel.footnotes) :
        /\ Len(panel.footnotes[k].references) > 1
        /\ \E h \in 2..Len(panel.headers) :
              /\ panel.headers[h].line = panel.footnotes[k].references[1].line
              /\ \A a \in Appearances(panel.groupsOld, panel.footnotes[k].number) :
                    GroupLine(panel.groupsOld.groups[a[1]]) = panel.headers[h - 1].line

(***************************************************************************)
(* Properties of the two passes of the extractor.                          *)
(***************************************************************************)
\* the [^id] tokens the reference pass skips as opening a definition
SkippedTokens(t) ==
  LET skipped(m) == IsDefinitionToken(t, m.startPos, m.endPos)
  IN SelectSeq(ReferenceMatches(t, 0), skipped)

\* the token opens a definition the definition pass recorded
RecordedAsDefinition(token, defMatches) ==
  \E k \in 1..Len(defMatches) :
    /\ defMatches[k].startPos = token.startPos
    /\ defMatches[k].number = token.number

SkippedAreDefinitions(t) ==
  \A k \in 1..Len(SkippedTokens(t)) :
    RecordedAsDefinition(SkippedTokens(t)[k], DefinitionMatches(t, 0))

\* C17: every [^id] token that the reference pass skips as the opening
\* token of a definition, a token after optional leading white space and
\* followed by a colon, is recorded as a definition of id by the definition
\* pass.
C17_SkippedAreDefinitions == SkippedAreDefinitions(text)

(***************************************************************************)
(* Properties of the panel's actions on a footnote that is gone.           *)
(***************************************************************************)
\* the delete or the save button has run for a footnote whose id is no
\* record, referenced or not, of the text the button found in the editor
GoneTargetRan ==
  /\ last.op \in {"delete", "update"}
  /\ NoRecordWithId(ExtractFootnotes(last.before), last.target[1].number)

\* C18: when the id of the footnote deleted or saved from the panel is not
\* a footnote of the current text, the operation changes no character of
\* the document.
C18_GoneTargetUntouched == GoneTargetRan => text = last.before

(***************************************************************************)
(* Properties of the application of spans.                                 *)
(***************************************************************************)
\* the span does not lie within t
InvalidSpan(t, span) == span.startPos > span.endPos \/ span.endPos > Len(t)

\* the span the last operation cut first from the text it found: the
\* definition span of the panel's record for the deletion of an
\* unreferenced footnote, the orphaned reference with the highest offset for
\* the removal of orphaned references
FirstCut ==
  IF last.op = "delete" /\ last.target[1].isUnreferenced
  THEN <<last.target[1].definition>>
  ELSE IF last.op = "renumber" /\ last.removeOrphaned
            /\ Len(FindOrphanedReferences(last.spanSrc)) > 0
       THEN <<FindOrphanedReferences(last.spanSrc)[Len(FindOrphanedReferences(last.spanSrc))]>>
       ELSE <<>>

\* C19: applying an edit whose span has start > end or end > text length
\* leaves the text unchanged; it never produces a modified text.
C19_InvalidSpanRejected ==
  (FirstCut # <<>> /\ InvalidSpan(last.before, FirstCut[1])) => text = last.before

(***************************************************************************)
(* Properties of the writes to the editor.                                 *)
(***************************************************************************)
\* every value the last operation gave the editor is its final result
WritesOnlyResult ==
  \A k \in 1..Len(last.writes) : last.writes[k] = text

\* C20: each mutating operation (renumber with any combination of options,
\* delete, insert) writes the document in one step: no text in which only
\* part of the operation's edits is applied is ever given to the editor.
C20_AtomicWrite ==
  last.op \in {"renumber", "delete", "insert"}
    => (Len(last.writes) <= 1 /\ WritesOnlyResult)

(***************************************************************************)
(* Properties of the definition pass.                                      *)
(***************************************************************************)
\* the offsets at which a line of t begins
LineStarts(t) == {0} \cup {i \in 1..Len(t) : t[i] = NL}

\* the line that begins at offset i opens with "[^id]:"
OpensDefinition(t, i) ==
  RefMatchEnd(t, i) # -1 /\ CharAt(t, RefMatchEnd(t, i)) = ":"

\* the part of the line beginning at offset i that follows "[^id]:", without
\* the blanks after the colon
OwnLineContent(t, i) ==
  Sub(t, Min(RunEnd(t, RefMatchEnd(t, i) + 1, {" "}), LineEnd(t, i)), LineEnd(t, i))

\* the definition match that starts at offset i is the line's own:
\* content and span stop at the end of the line
OwnLineDefinition(t, i, defMatches) ==
  \E k \in 1..Len(defMatches) :
    /\ defMatches[k].startPos = i
    /\ defMatches[k].endPos = LineEnd(t, i)
    /\ defMatches[k].content = OwnLineContent(t, i)

SingleLineDefinitions(t, defMatches) ==
  /\ \A i \in LineStarts(t) : OpensDefinition(t, i) => OwnLineDefinition(t, i, defMatches)
  /\ \A k \in 1..Len(defMatches) :
        /\ defMatches[k].startPos \in LineStarts(t)
        /\ OpensDefinition(t, defMatches[k].startPos)

\* C21: for every definition, one with empty content included, the
\* extracted content is the text on the definition's own line after
\* "[^id]:" and the definition span ends at the end of that line; a
\* definition with nothing after the colon has empty content and neither
\* takes in the following line nor hides a definition on it.
C21_SingleLineDefinitions == SingleLineDefinitions(text, DefinitionMatches(text, 0))

(***************************************************************************)
(* Properties of the group tree.                                           *)
(***************************************************************************)
\* the children of group g of r, in the order they were attached
Children(r, g) ==
  LET child(c) == r.groups[c].parent = g
  IN SelectSeq([c \in 1..Len(r.groups) |-> c], child)

\* the pre-order walk of the subtree of g; depth bounds the recursion
RECURSIVE PreOrder(_, _, _)
PreOrder(r, g, depth) ==
  IF depth = 0 THEN <<g>>
  ELSE <<g>> \o Flatten([k \in 1..Len(Children(r, g)) |->
                           PreOrder(r, Children(r, g)[k], depth - 1)])

\* the header lines a pre-order walk of the whole result visits
WalkedHeaderLines(r) ==
  LET walk == Flatten([k \in 1..Len(r.roots) |-> PreOrder(r, r.roots[k], Len(r.groups))])
      hasHeader(g) == r.groups[g].header # <<>>
      walked == SelectSeq(walk, hasHeader)
  IN [k \in 1..Len(walked) |-> r.groups[walked[k]].header[1].line]

Ascending(lines) == \A k \in 1..(Len(lines) - 1) : lines[k] < lines[k + 1]

GroupsOfHeader(r, header) ==
  {g \in 1..Len(r.groups) : r.groups[g].header = <<header>>}

TreeInvariant(r, headers) ==
  /\ \A c \in 1..Len(r.groups) :
        r.groups[c].parent # 0 =>
          /\ r.groups[c].header[1].level > r.groups[r.groups[c].parent].header[1].level
          /\ r.groups[c].header[1].line > r.groups[r.groups[c].parent].header[1].line
  /\ \A h \in 1..Len(headers) : Cardinality(GroupsOfHeader(r, headers[h])) = 1
  /\ Ascending(WalkedHeaderLines(r))
  /\ Len(WalkedHeaderLines(r)) = Len(headers)

\* C22: in the group tree built from a header outline every child group's
\* header level is strictly greater than its parent's, every child's header
\* line is greater than its parent's, each header of the outline is in
\* exactly one group, and a pre-order walk of the header groups visits the
\* header lines in ascending order.
C22_TreeInvariant == TreeInvariant(panel.groups, panel.headers)

\* rendered after an edit: a header that closed a deeper section and became
\* the child of the header before that section
C22_Witness ==
  /\ budget < MaxOutlineEdits
  /\ panel.src = text
  /\ \E g \in 2..Len(panel.groups.groups) :
        /\ panel.groups.groups[g].parent # 0
        /\ panel.groups.groups[g].parent # g - 1
        /\ panel.groups.groups[g - 1].header # <<>>
        /\ panel.groups.groups[g - 1].header[1].level > panel.groups.groups[g].header[1].level

(***************************************************************************)
(* Properties of repeated definitions.                                     *)
(***************************************************************************)
\* the definition matches of the id, in document order
DefinitionsOf(defMatches, number) ==
  LET mine(m) == m.number = number
  IN SelectSeq(defMatches, mine)

\* the kept reference tokens of the id, in document order
ReferencesOf(refs, number) ==
  LET mine(m) == m.number = number
  IN SelectSeq(refs, mine)

\* the one record of the id is built from the last of its definitions and
\* holds all its references
LastWins(footnotes, defs, refs, number) ==
  /\ RecordsOf(footnotes, number) = 1
  /\ \A k \in 1..Len(footnotes) :
        footnotes[k].number = number =>
          /\ footnotes[k].definition = defs[Len(defs)]
          /\ footnotes[k].content = defs[Len(defs)].content
          /\ footnotes[k].references = refs
          /\ footnotes[k].referenceCount = Len(refs)

DuplicatesLastWins(t, footnotes) ==
  \A k \in 1..Len(DefinitionMatches(t, 0)) :
    LastWins(footnotes,
             DefinitionsOf(DefinitionMatches(t, 0), DefinitionMatches(t, 0)[k].number),
             ReferencesOf(References(t), DefinitionMatches(t, 0)[k].number),
             DefinitionMatches(t, 0)[k].number)

\* C23: when the text holds several definitions of one id, extraction keeps
\* exactly one record for the id, built from the last definition in
\* document order (its content and span), and all references to the id
\* belong to that record.
C23_DuplicatesLastWins == DuplicatesLastWins(panel.src, panel.footnotes)

\* the panel refreshed after an insertion shows a referenced footnote whose
\* id is defined twice with different contents
C23_Witness ==
  /\ last.op = "insert"
  /\ panel.src = text
  /\ \E k \in 1..Len(panel.footnotes) :
        /\ panel.footnotes[k].referenceCount > 0
        /\ \E d \in 1..Len(DefinitionMatches(text, 0)) :
              /\ DefinitionMatches(text, 0)[d].number = panel.footnotes[k].number
              /\ DefinitionMatches(text, 0)[d].content # panel.footnotes[k].content

(***************************************************************************)
(* Safety of fill-gaps renumbering.                                        *)
(***************************************************************************)
\* no two definitions of t carry the same id
DistinctDefinitionIds(t) ==
  \A j \in 1..Len(DefinitionMatches(t, 0)), k \in 1..Len(DefinitionMatches(t, 0)) :
    j # k => DefinitionMatches(t, 0)[j].number # DefinitionMatches(t, 0)[k].number

\* C25: after fill-gaps renumbering of a text whose definitions have
\* distinct ids, no two definitions carry the same id, also when an
\* unreferenced definition, which is not renumbered, already uses one of
\* the new ids.
C25_NoDuplicateDefinitions ==
  (FillGapsRan /\ DistinctDefinitionIds(last.mid)) => DistinctDefinitionIds(text)

\* the definition a reference id resolves to in t: the position, among the
\* definitions of t in document order, of the definition extraction keeps
\* for the id; 0 when the id has no definition (the reference is orphaned)
ResolvesTo(t, number) ==
  LET kept == DefinitionsOf(FootnoteDefinitions(t), number)
      at   == {j \in 1..Len(DefinitionMatches(t, 0)) :
                 kept # <<>> /\ DefinitionMatches(t, 0)[j].startPos = kept[1].startPos}
  IN IF at = {} THEN 0 ELSE CHOOSE j \in at : TRUE

\* the k-th reference of after resolves to the definition at the position
\* the k-th reference of before resolved to; an orphan stays an orphan
BindingsPreserved(before, after) ==
  /\ Len(References(after)) = Len(References(before))
  /\ Len(DefinitionMatches(after, 0)) = Len(DefinitionMatches(before, 0))
  /\ \A k \in 1..Len(References(before)) :
        k <= Len(References(after)) =>
          ResolvesTo(after, References(after)[k].number)
            = ResolvesTo(before, References(before)[k].number)

\* C26: for every reference token, the definition it resolves to after
\* fill-gaps renumbering is the renumbered form of the definition it
\* resolved to before, and a reference that was orphaned before is still
\* orphaned after: it is not captured by a footnote that received its id.
C26_BindingsPreserved == FillGapsRan => BindingsPreserved(last.mid, text)

(***************************************************************************)
(* Safety of Insert footnote.                                              *)
(***************************************************************************)
\* the ids of the definitions and of the [^id] tokens of t
IdsInUse(t) ==
  {DefinitionMatches(t, 0)[k].number : k \in 1..Len(DefinitionMatches(t, 0))}
    \cup {ReferenceMatches(t, 0)[k].number : k \in 1..Len(ReferenceMatches(t, 0))}

\* C27: the id Insert footnote chooses is not the id of any definition,
\* referenced or not, nor of any reference, orphaned ones included, already
\* in the document.
C27_FreshId == InsertRan => last.number \notin IdsInUse(last.before)

(***************************************************************************)
(* Completeness of the removal of orphaned references.                     *)
(***************************************************************************)
\* id and reference count of the records
IdsAndCounts(footnotes) ==
  {[number |-> footnotes[k].number, referenceCount |-> footnotes[k].referenceCount] :
     k \in 1..Len(footnotes)}

OrphanRemovalComplete(before, after) ==
  /\ FindOrphanedReferences(after) = <<>>
  /\ IdsAndCounts(ExtractFootnotes(after)) = IdsAndCounts(ExtractFootnotes(before))
  /\ Len(ExtractFootnotes(after)) = Len(ExtractFootnotes(before))

\* C28: after removing the orphaned references, re-extracting the
\* resulting text yields no orphaned reference, and the footnote records
\* with their reference counts are the same as before the removal.
C28_OrphanRemovalComplete ==
  OrphanRemovalRan => OrphanRemovalComplete(last.before, last.mid)

(***************************************************************************)
(* Refresh control: the skip flags of the plugin, the debounce timer, the   *)
(* guards of FootnotesView.refresh and the timers the handlers start, over  *)
(* a clock in milliseconds.  plugin holds the plugin's fields, panel the    *)
(* view's fields and what it shows, host the clock, the timer queue, the    *)
(* pending vault reads and whether a markdown view shows the file.          *)
(***************************************************************************)
\* user events in one behaviour
MaxEvents == 2

\* user events happen in the first Horizon milliseconds after Epoch
Horizon == 1500

\* the clock advances by at most Step milliseconds at a time
Step == 100

\* Date.now() when the plugin is loaded
Epoch == 3000

DebounceDelay == 500

HeaderSkipDelay == 100

ViewRefreshDelay == 100

ButtonSkipPeriod == 1000

NavigationSkipPeriod == 2000

SkipPeriods == {ButtonSkipPeriod, NavigationSkipPeriod}

SkipCheckWindow == 100

SkipCheckGrace == 2000

RefreshCheckWindow == 100

RefreshCheckGrace == 3000

RefreshDocs ==
  { JoinLines(<<Ref("1"), Def("1", <<" ", "a">>)>>),
    JoinLines(<<Ref("1") \o <<" ">> \o Ref("1"), Def("1", <<" ", "a">>)>>) }

Timer(kind, due) == [kind |-> kind, due |-> due]

\* the skip test of the plugin's handlers
SkipFlags(p, now) ==
  p.skipNextRefresh \/ now < p.skipRefreshUntil \/ p.isNavigating

\* the four early returns of FootnotesView.refresh: TRUE when none is taken
Proceeds(v, p, now) ==
  /\ ~(p.skipNextRefresh \/ now < p.skipRefreshUntil)
  /\ ~(now - v.skipCheckTimestamp < SkipCheckWindow
         /\ p.skipRefreshUntil > now - SkipCheckGrace)
  /\ ~(v.isNavigating \/ p.isNavigating)
  /\ ~(now - v.lastRefreshCheck < RefreshCheckWindow
         /\ p.skipRefreshUntil > now - RefreshCheckGrace)

\* processFootnotes: the list is built from the content handed over
ProcessFootnotes(v, content) == [v EXCEPT !.src = content, !.listed = TRUE]

\* the footnotes the list shows: extractFootnotes of the content it was
\* built from, none while the container is empty
ShownFootnotes(v) == IF v.listed THEN ExtractFootnotes(v.src) ELSE <<>>

\* FootnotesView.refresh: the view afterwards, the vault reads pending
\* afterwards and whether the list was rebuilt in this call
ViewRefresh(v, p, h, t) ==
  IF ~Proceeds(v, p, h.now)
  THEN [view |-> v, reads |-> h.reads, rendered |-> FALSE]
  ELSE IF h.editorOpen
       THEN [view |-> ProcessFootnotes([v EXCEPT !.lastRefreshCheck = h.now], t),
             reads |-> h.reads, rendered |-> TRUE]
       ELSE [view |-> [v EXCEPT !.lastRefreshCheck = h.now, !.listed = FALSE],
             reads |-> h.reads + 1, rendered |-> FALSE]

\* refreshFootnotesView
RefreshFootnotesView(v, p, h, t) ==
  IF SkipFlags(p, h.now)
  THEN [view |-> v, reads |-> h.reads, rendered |-> FALSE]
  ELSE ViewRefresh([v EXCEPT !.skipCheckTimestamp = h.now, !.lastRefreshCheck = h.now],
                   p, h, t)

\* setSkipRefreshPeriod: the plugin's fields and the timer queue afterwards
SetSkipRefreshPeriod(p, h, milliseconds) ==
  [plugin |-> [p EXCEPT !.skipNextRefresh = TRUE,
                        !.skipRefreshUntil = h.now + milliseconds],
   timers |-> h.timers \cup {Timer("clearSkip", h.now + milliseconds)}]

\* debounceRefresh without the clearTimeout of the pending timer
DebounceRefreshKeepingTimer(p, h) ==
  IF SkipFlags(p, h.now)
  THEN [plugin |-> p, timers |-> h.timers]
  ELSE [plugin |-> [p EXCEPT !.refreshTimeout = h.now + DebounceDelay],
        timers |-> h.timers \cup {Timer("debounce", h.now + DebounceDelay)}]

\* debounceRefresh: a timer is identified by the time it is due at
DebounceRefresh(p, h) ==
  IF SkipFlags(p, h.now)
  THEN [plugin |-> p, timers |-> h.timers]
  ELSE [plugin |-> [p EXCEPT !.refreshTimeout = h.now + DebounceDelay],
        timers |-> (h.timers \ {Timer("debounce", p.refreshTimeout)})
                     \cup {Timer("debounce", h.now + DebounceDelay)}]

\* the first editor-change handler of onload; the second one records the
\* cursor only
OnEditorChange(p, h) ==
  IF ~p.skipNextRefresh THEN DebounceRefresh(p, h) ELSE [plugin |-> p, timers |-> h.timers]

\* history of the behaviour, kept in last: the handler that ran, whether it
\* rebuilt the list, whether the debounce callback went on to refresh, the
\* time and length of the current burst of editor-change events, the number
\* of debounced refreshes since its last event, whether a skip window was
\* active since its first event, and whether the latest change of the text
\* is still neither shown nor followed by another event
Noted(op, rendered, refreshed, editorChange, textChanged, event, p2, now2) ==
  LET inBurst == last.changeAt # 0 /\ host.now - last.changeAt < DebounceDelay
  IN [op        |-> op,
      rendered  |-> rendered,
      refreshed |-> refreshed,
      changeAt  |-> IF editorChange THEN host.now ELSE last.changeAt,
      burstLen  |-> IF editorChange
                    THEN (IF inBurst THEN last.burstLen + 1 ELSE 1)
                    ELSE last.burstLen,
      executed  |-> IF editorChange THEN 0
                    ELSE last.executed + (IF refreshed THEN 1 ELSE 0),
      skipSeen  |-> IF editorChange /\ ~inBurst
                    THEN SkipFlags(p2, now2)
                    ELSE last.skipSeen \/ SkipFlags(p2, now2),
      awaiting  |-> IF textChanged THEN TRUE
                    ELSE IF event \/ rendered THEN FALSE
                    ELSE last.awaiting]

InitRefresh ==
  /\ text \in RefreshDocs
  /\ panel = [src |-> text, listed |-> TRUE, skipCheckTimestamp |-> 0, lastRefreshCheck |-> 0,
              isNavigating |-> FALSE]
  /\ plugin = [skipNextRefresh |-> FALSE, skipRefreshUntil |-> 0, refreshTimeout |-> 0,
               isNavigating |-> FALSE]
  /\ host = [now |-> Epoch, timers |-> {}, reads |-> 0, editorOpen |-> TRUE]
  /\ dialog = <<>>
  /\ last = [op |-> "none", rendered |-> FALSE, refreshed |-> FALSE, changeAt |-> 0,
             burstLen |-> 0, executed |-> 0, skipSeen |-> FALSE, awaiting |-> FALSE]
  /\ budget = MaxEvents

\* the user acts only in the first Horizon milliseconds
MayAct == budget > 0 /\ host.now <= Epoch + Horizon

\* the user types in the editor: the host fires editor-change
EditorChange ==
  /\ MayAct
  /\ host.editorOpen
  /\ \E t \in RefreshDocs \ {text} : text' = t
  /\ LET r == OnEditorChange(plugin, host)
     IN /\ plugin' = r.plugin
        /\ host' = [host EXCEPT !.timers = r.timers]
        /\ last' = Noted("editorChange", FALSE, FALSE, TRUE, TRUE, TRUE, r.plugin, host.now)
  /\ budget' = budget - 1
  /\ UNCHANGED <<panel, dialog>>

\* the user moves to another pane: the active-leaf-change handler of onload
ActiveLeafChange ==
  /\ MayAct
  /\ \E open \in BOOLEAN :
       LET h == [host EXCEPT !.editorOpen = open]
           r == RefreshFootnotesView(panel, plugin, h, text)
       IN /\ panel' = r.view
          /\ host' = [h EXCEPT !.reads = r.reads]
          /\ last' = Noted("activeLeafChange", r.rendered, FALSE, FALSE, FALSE, TRUE,
                           plugin, host.now)
  /\ budget' = budget - 1
  /\ UNCHANGED <<text, dialog, plugin>>

\* a click on the panel's navigation, return or renumber button, or on a
\* footnote's reference or navigation button
SkipClick ==
  /\ MayAct
  /\ \E milliseconds \in SkipPeriods :
       LET r == SetSkipRefreshPeriod(plugin, host, milliseconds)
       IN /\ plugin' = r.plugin
          /\ host' = [host EXCEPT !.timers = r.timers]
          /\ last' = Noted("skipClick", FALSE, FALSE, FALSE, FALSE, TRUE, r.plugin, host.now)
  /\ budget' = budget - 1
  /\ UNCHANGED <<text, panel, dialog>>

\* a click on the text of a section header in the panel
HeaderClick ==
  /\ MayAct
  /\ panel.listed
  /\ plugin' = [plugin EXCEPT !.skipNextRefresh = TRUE]
  /\ host' = [host EXCEPT !.timers = @ \cup {Timer("headerClear", host.now + HeaderSkipDelay)}]
  /\ last' = Noted("headerClick", FALSE, FALSE, FALSE, FALSE, TRUE, plugin', host.now)
  /\ budget' = budget - 1
  /\ UNCHANGED <<text, panel, dialog>>

\* a click on the list/outline toggle of the panel
ListViewClick ==
  /\ MayAct
  /\ LET r == ViewRefresh(panel, plugin, host, text)
     IN /\ panel' = r.view
        /\ host' = [host EXCEPT !.reads = r.reads]
        /\ last' = Noted("listViewClick", r.rendered, FALSE, FALSE, FALSE, TRUE,
                         plugin, host.now)
  /\ budget' = budget - 1
  /\ UNCHANGED <<text, dialog, plugin>>

\* what follows a delete or a save in the panel: with no write the view is
\* refreshed at once, after a write a refresh is scheduled and the host may
\* fire editor-change for the write
AfterPanelWrite(op, writes) ==
  IF writes = <<>>
  THEN LET r == ViewRefresh(panel, plugin, host, text)
       IN /\ panel' = r.view
          /\ host' = [host EXCEPT !.reads = r.reads]
          /\ plugin' = plugin
          /\ last' = Noted(op, r.rendered, FALSE, FALSE, FALSE, TRUE, plugin, host.now)
  ELSE \E fired \in BOOLEAN :
         LET h == [host EXCEPT !.timers = @ \cup {Timer("viewRefresh",
                                                        host.now + ViewRefreshDelay)}]
             r == IF fired THEN OnEditorChange(plugin, h)
                  ELSE [plugin |-> plugin, timers |-> h.timers]
         IN /\ panel' = panel
            /\ plugin' = r.plugin
            /\ host' = [h EXCEPT !.timers = r.timers]
            /\ last' = Noted(op, FALSE, FALSE, fired, text' # text, TRUE, r.plugin, host.now)

\* the delete button of a footnote the panel shows
PanelDelete ==
  /\ MayAct
  /\ host.editorOpen
  /\ \E k \in 1..Len(ShownFootnotes(panel)) :
       /\ text' = DeleteFootnoteFromEditor(text, ShownFootnotes(panel)[k])
       /\ AfterPanelWrite("delete", DeleteWrites(text, ShownFootnotes(panel)[k]))
  /\ budget' = budget - 1
  /\ UNCHANGED dialog

\* saving the edit box of a referenced footnote the panel shows
PanelUpdate ==
  /\ MayAct
  /\ host.editorOpen
  /\ \E k \in 1..Len(ShownFootnotes(panel)), newContent \in NewContents :
       /\ ~ShownFootnotes(panel)[k].isUnreferenced
       /\ newContent # ShownFootnotes(panel)[k].content
       /\ text' = UpdateFootnoteInEditor(text, ShownFootnotes(panel)[k], newContent)
       /\ AfterPanelWrite("update",
                          UpdateWrites(text, ShownFootnotes(panel)[k], newContent))
  /\ budget' = budget - 1
  /\ UNCHANGED dialog

\* a timer of the given kind is due
Due(kind) == Timer(kind, host.now) \in host.timers

Fired(kind) == [host EXCEPT !.timers = @ \ {Timer(kind, host.now)}]

\* the callback debounceRefresh hands to setTimeout
FireDebounce ==
  /\ Due("debounce")
  /\ LET h == Fired("debounce")
         r == IF SkipFlags(plugin, host.now)
              THEN [view |-> panel, reads |-> host.reads, rendered |-> FALSE]
              ELSE RefreshFootnotesView(panel, plugin, h, text)
     IN /\ panel' = r.view
        /\ host' = [h EXCEPT !.reads = r.reads]
        /\ last' = Noted("debounce", r.rendered, ~SkipFlags(plugin, host.now), FALSE, FALSE,
                         FALSE, plugin, host.now)
  /\ UNCHANGED <<text, dialog, budget, plugin>>

\* the callback setSkipRefreshPeriod hands to setTimeout
FireClearSkip ==
  /\ Due("clearSkip")
  /\ plugin' = [plugin EXCEPT !.skipNextRefresh = FALSE]
  /\ host' = Fired("clearSkip")
  /\ last' = Noted("clearSkip", FALSE, FALSE, FALSE, FALSE, FALSE, plugin', host.now)
  /\ UNCHANGED <<text, panel, dialog, budget>>

\* the callback the header click hands to setTimeout
FireHeaderClear ==
  /\ Due("headerClear")
  /\ plugin' = [plugin EXCEPT !.skipNextRefresh = FALSE]
  /\ host' = Fired("headerClear")
  /\ last' = Noted("headerClear", FALSE, FALSE, FALSE, FALSE, FALSE, plugin', host.now)
  /\ UNCHANGED <<text, panel, dialog, budget>>

\* the refresh scheduled after a delete or a save
FireViewRefresh ==
  /\ Due("viewRefresh")
  /\ LET h == Fired("viewRefresh")
         r == ViewRefresh(panel, plugin, h, text)
     IN /\ panel' = r.view
        /\ host' = [h EXCEPT !.reads = r.reads]
        /\ last' = Noted("viewRefresh", r.rendered, FALSE, FALSE, FALSE, FALSE,
                         plugin, host.now)
  /\ UNCHANGED <<text, dialog, budget, plugin>>

\* vault.read resolves: the continuation of FootnotesView.refresh builds
\* the list
ReadDone ==
  /\ host.reads > 0
  /\ panel' = ProcessFootnotes(panel, text)
  /\ host' = [host EXCEPT !.reads = @ - 1]
  /\ last' = Noted("readDone", TRUE, FALSE, FALSE, FALSE, FALSE, plugin, host.now)
  /\ UNCHANGED <<text, dialog, budget, plugin>>

\* the time the earliest pending timer is due at
EarliestDue(h) == CHOOSE d \in {tm.due : tm \in h.timers} : \A tm \in h.timers : d <= tm.due

\* the time the clock advances to: no timer is passed over, and once the
\* user acts no more the clock goes straight to the next timer
NextInstant(h) ==
  IF budget > 0 /\ h.now < Epoch + Horizon
       /\ (h.timers = {} \/ h.now + Step < EarliestDue(h))
  THEN h.now + Step
  ELSE EarliestDue(h)

\* time passes while a timer is pending or the user may still act
Tick ==
  /\ \A tm \in host.timers : tm.due > host.now
  /\ host.timers # {} \/ (budget > 0 /\ host.now < Epoch + Horizon)
  /\ host' = [host EXCEPT !.now = NextInstant(host)]
  /\ last' = Noted("tick", FALSE, FALSE, FALSE, FALSE, FALSE, plugin, host'.now)
  /\ UNCHANGED <<text, panel, dialog, budget, plugin>>

NextRefresh ==
  \/ EditorChange
  \/ ActiveLeafChange
  \/ SkipClick
  \/ HeaderClick
  \/ ListViewClick
  \/ PanelDelete
  \/ PanelUpdate
  \/ FireDebounce
  \/ FireClearSkip
  \/ FireHeaderClear
  \/ FireViewRefresh
  \/ ReadDone
  \/ Tick

SpecRefresh == InitRefresh /\ [][NextRefresh]_vars

\* what happens without the user: timers fire, pending reads resolve and
\* the clock advances
Scheduled ==
  \/ FireDebounce
  \/ FireClearSkip
  \/ FireHeaderClear
  \/ FireViewRefresh
  \/ ReadDone
  \/ Tick

\* the host's event loop does not stop: while a callback is due, a read is
\* pending or the clock can advance, one of them happens
SpecRefreshLive == SpecRefresh /\ WF_vars(Scheduled)

(***************************************************************************)
(* Refresh suppression, eventual consistency of the panel, debounce.       *)
(***************************************************************************)
SkipWindowActive == plugin.skipNextRefresh \/ host.now < plugin.skipRefreshUntil

\* C24: whichever handler asked for it, the list of the panel is never
\* rebuilt at a time when skipNextRefresh is true or the clock is before
\* skipRefreshUntil.
C24_RefreshSuppression == last.rendered => ~SkipWindowActive

\* C29: a change of the text that no further event follows is eventually
\* shown: the panel is rebuilt from the text the change produced, also when
\* the change arrived inside a skip window.
C29_EventuallyConsistent == last.awaiting ~> ~last.awaiting

DebounceTimers == {tm \in host.timers : tm.kind = "debounce"}

====
